---- MODULE Spec2Model ----
(***************************************************************************)
(* Model of the multi-provider AI orchestration layer of MemoryMesh        *)
(* (src/unnamed/part_006, originally src/services/ai/AIProvider.ts):       *)
(* the provider clients, AIOrchestrator.selectProvider, transcribeAudio,   *)
(* extractContext (single and ensemble) and fuseContextResults.            *)
(*                                                                         *)
(* Strings of the extraction result (tags, people, titles, ...) are        *)
(* abstracted to natural numbers: equal numbers are the same string        *)
(* (exact, case-sensitive match), 0 is the empty string where a field is   *)
(* a single string.  Confidences are counted in units of 1/200, so that    *)
(* the mean of two confidences given in hundredths is an integer.          *)
(***************************************************************************)
EXTENDS Integers, Sequences, FiniteSets, TLC

VARIABLES
    preferredProvider,  \* AIOrchestrator.preferredProvider
    pc,                 \* position of the orchestrator call: "idle", "awaiting", "done"
    call,               \* the public operation being executed and its arguments
    claudeCall,         \* promise of the ClaudeAIProvider call of this operation
    kimiCall,           \* promise of the KimiAIProvider call of this operation
    openaiCall,         \* promise of the OpenAIProvider call of this operation
    results,            \* the array Promise.allSettled resolves with
    settleOrder,        \* providers in the order their promises settled
    invoked,            \* provider client methods invoked by this operation, in order
    outcome,            \* what the operation returned or threw
    responses,          \* what the backend of each provider answered to this operation
    requests,           \* outbound network requests made by this operation, in order
    selected,           \* last evaluation of selectProvider
    first,              \* fuseContextResults: argument claude
    second,             \* fuseContextResults: argument openai
    fused,              \* fuseContextResults: result
    store,              \* useMemoryStore: the state of the store
    tasks,              \* useMemoryStore: the calls of store actions in flight or completed
    server,             \* memoryService and offlineSync: what the backend holds
    calls,              \* useMemoryStore: calls made to the orchestrator and the services
    auth,               \* useAuthStore: the state of the store
    authTasks,          \* useAuthStore: the calls of store actions in flight or completed
    secureStore         \* SecureStore: the item stored under USER_STORAGE_KEY

vars == <<preferredProvider, pc, call, claudeCall, kimiCall, openaiCall, results,
          settleOrder, invoked, outcome, responses, requests, selected, first, second,
          fused, store, tasks, server, calls, auth, authTasks, secureStore>>

orchVars == <<preferredProvider, pc, call, claudeCall, kimiCall, openaiCall, results,
              settleOrder, invoked, outcome, responses, requests, selected>>

fuseVars == <<first, second, fused>>

storeVars == <<store, tasks, server, calls>>

authVars == <<auth, authTasks, secureStore>>

appVars == <<storeVars, authVars>>

(***************************************************************************)
(* Bounds                                                                  *)
(***************************************************************************)
\* number of distinct tag strings the fusion inputs are built from
MaxTag == 12

(***************************************************************************)
(* Enumerations                                                            *)
(***************************************************************************)
CLAUDE == "claude"
KIMI == "kimi"
OPENAI == "openai"

AIProvider == {CLAUDE, KIMI, OPENAI}

\* an absent optional argument (undefined)
NoProvider == "undefined"

TRANSCRIPTION == "transcription"
CONTEXT_EXTRACTION == "context_extraction"
SUMMARIZATION == "summarization"
SEARCH == "search"
TRANSLATION == "translation"
CODE_ANALYSIS == "code_analysis"
CREATIVE == "creative"
CONVERSATION == "conversation"

AICapability == {TRANSCRIPTION, CONTEXT_EXTRACTION, SUMMARIZATION, SEARCH,
                 TRANSLATION, CODE_ANALYSIS, CREATIVE, CONVERSATION}

\* getCapabilities() of the three provider classes
getCapabilities ==
    [p \in AIProvider |->
        CASE p = CLAUDE -> <<CONTEXT_EXTRACTION, SUMMARIZATION, CONVERSATION, CODE_ANALYSIS>>
          [] p = KIMI   -> <<TRANSCRIPTION, TRANSLATION, CODE_ANALYSIS, SEARCH, CONTEXT_EXTRACTION>>
          [] p = OPENAI -> <<TRANSCRIPTION, CONTEXT_EXTRACTION, CREATIVE, CONVERSATION, SUMMARIZATION>>]

Range(s) == {s[i] : i \in 1..Len(s)}

\* the methods the three provider classes define, and the OpenAI client's
\* chat completion, which the orchestrator calls through the field client
methods ==
    [p \in AIProvider |->
        CASE p = CLAUDE -> {"extractContext", "generateSummary", "detectEmotion",
                            "conversationalQuery", "getCapabilities"}
          [] p = KIMI   -> {"transcribe", "translateContext", "analyzeCode",
                            "semanticSearch", "getCapabilities"}
          [] p = OPENAI -> {"transcribe", "extractContext", "generateEmbedding",
                            "createMemoryStory", "getCapabilities",
                            "client.chat.completions.create"}]

(***************************************************************************)
(* selectProvider                                                          *)
(***************************************************************************)
capabilityMapWrongTranscription ==
    [c \in AICapability |->
        CASE c = TRANSCRIPTION      -> CLAUDE
          [] c = CONTEXT_EXTRACTION -> CLAUDE
          [] c = SUMMARIZATION      -> CLAUDE
          [] c = SEARCH             -> KIMI
          [] c = TRANSLATION        -> KIMI
          [] c = CODE_ANALYSIS      -> KIMI
          [] c = CREATIVE           -> OPENAI
          [] c = CONVERSATION       -> OPENAI]

capabilityMap ==
    [c \in AICapability |->
        CASE c = TRANSCRIPTION      -> KIMI
          [] c = CONTEXT_EXTRACTION -> CLAUDE
          [] c = SUMMARIZATION      -> CLAUDE
          [] c = SEARCH             -> KIMI
          [] c = TRANSLATION        -> KIMI
          [] c = CODE_ANALYSIS      -> KIMI
          [] c = CREATIVE           -> OPENAI
          [] c = CONVERSATION       -> OPENAI]

\* a provider name is a non-empty string, hence truthy; undefined is falsy
TruthyProvider(p) == p # NoProvider

\* mutant: the table is consulted first, the preference only as a fallback
selectProviderTableFirst(capability, userPreference, preferred) ==
    IF capability \in DOMAIN capabilityMap
    THEN capabilityMap[capability]
    ELSE IF TruthyProvider(userPreference) THEN userPreference ELSE preferred

\* mutant: the preferred provider is returned when there is no override
selectProviderPreferredFirst(capability, userPreference, preferred) ==
    IF TruthyProvider(userPreference) THEN userPreference
    ELSE IF TruthyProvider(preferred) THEN preferred
    ELSE capabilityMap[capability]

\* mutant: the preferred provider of the orchestrator shadows the table
selectProviderPreferred(capability, userPreference, preferred) ==
    IF TruthyProvider(userPreference) THEN userPreference
    ELSE IF capabilityMap[capability] = OPENAI THEN preferred
    ELSE capabilityMap[capability]

selectProvider(capability, userPreference, preferred) ==
    IF TruthyProvider(userPreference) THEN userPreference
    ELSE IF TruthyProvider(capabilityMap[capability])
         THEN capabilityMap[capability]
         ELSE preferred

(***************************************************************************)
(* transcribeAudio: the switch over the selected provider                  *)
(***************************************************************************)
\* mutant: the default branch falls back to Kimi
transcribeClientKimiFallback(selectedProvider) ==
    CASE selectedProvider = KIMI   -> KIMI
      [] selectedProvider = OPENAI -> OPENAI
      [] OTHER                     -> KIMI

transcribeClient(selectedProvider) ==
    CASE selectedProvider = KIMI   -> KIMI
      [] selectedProvider = OPENAI -> OPENAI
      [] OTHER                     -> OPENAI

(***************************************************************************)
(* Values (what JSON.parse yields), promises, completions                  *)
(***************************************************************************)
\* the JavaScript value null: JSON.parse("null"), and the orchestrator's
\* marker for a provider without data
NullValue == [json |-> "null"]

\* the object {} : every field of ContextExtractionResult is undefined
EmptyObject == [json |-> "object"]

\* the array-valued fields of ContextExtractionResult
ListFields == {"tags", "people", "places", "dates", "tasks", "emotions"}

\* JavaScript truthiness of a parsed value: null is falsy, every object truthy
Truthy(v) == v.json # "null"

NotCalled == [status |-> "none", value |-> NullValue, reason |-> "none"]
Pending == [status |-> "pending", value |-> NullValue, reason |-> "none"]
Fulfilled(v) == [status |-> "fulfilled", value |-> v, reason |-> "none"]
Rejected(e) == [status |-> "rejected", value |-> NullValue, reason |-> e]

Settled(p) == p.status \in {"fulfilled", "rejected"}

NoOutcome == [status |-> "none", value |-> NullValue, error |-> "none"]
Returned(v) == [status |-> "returned", value |-> v, error |-> "none"]
Thrown(e) == [status |-> "thrown", value |-> NullValue, error |-> e]

\* the completion of an async function that returns the promise p
Adopt(p) == IF p.status = "fulfilled" THEN Returned(p.value) ELSE Thrown(p.reason)

\* new Error('All AI providers failed to extract context')
AllProvidersFailed == "All AI providers failed to extract context"

(***************************************************************************)
(* Texts a backend answers with, and JSON.parse                            *)
(***************************************************************************)
\* the two sample extraction results of the orchestrator runs
ResultA ==
    [json |-> "object", summary |-> 1, title |-> 1, tags |-> <<1, 2>>, people |-> <<1>>,
     places |-> <<>>, dates |-> <<>>, tasks |-> <<>>, emotions |-> <<>>, priority |-> 2,
     category |-> "work", sentiment |-> "neutral", confidence |-> 160]

ResultB ==
    [json |-> "object", summary |-> 2, title |-> 0, tags |-> <<2, 3>>, people |-> <<2>>,
     places |-> <<>>, dates |-> <<>>, tasks |-> <<>>, emotions |-> <<>>, priority |-> 4,
     category |-> "personal", sentiment |-> "positive", confidence |-> 120]

SampleResults == {ResultA, ResultB}

\* a result as a backend is free to give it: eleven tags, a person twice
ResultVerbose ==
    [json |-> "object", summary |-> 3, title |-> 3,
     tags |-> <<1, 2, 3, 4, 5, 6, 7, 8, 9, 10, 11>>, people |-> <<1, 1>>,
     places |-> <<>>, dates |-> <<>>, tasks |-> <<>>, emotions |-> <<>>, priority |-> 1,
     category |-> "work", sentiment |-> "neutral", confidence |-> 180]

JsonText(v) == [syntax |-> "json", value |-> v]
InvalidText == [syntax |-> "invalid", value |-> NullValue]
EmptyText == [syntax |-> "empty", value |-> NullValue]

\* how a text wraps its body: not at all, in a ```json ... ``` fence, or in a
\* ``` ... ``` fence without the json tag
Fences == {"none", "json", "plain"}

\* a text: a body, possibly wrapped in a fence
Text(fence, body) == [fence |-> fence, body |-> body]

\* JSON.parse: the value of a bare JSON text, a SyntaxError for anything else
JSONparse(t) ==
    IF t.fence = "none" /\ t.body.syntax = "json"
    THEN [ok |-> TRUE, value |-> t.body.value]
    ELSE [ok |-> FALSE, value |-> NullValue]

\* jsonText.match(/```json\n([\s\S]+?)\n```/): the body of a ```json fence, if
\* there is one and it is not empty
extractJson(t) ==
    IF t.fence = "json" /\ t.body.syntax # "empty" THEN Text("none", t.body) ELSE t

(***************************************************************************)
(* Provider clients                                                        *)
(***************************************************************************)
\* what the Anthropic backend can answer: no answer (network, auth), a first
\* content block that is not text, or a text of the model's choosing
ClaudeResponses ==
    {[kind |-> "error", text |-> Text("none", EmptyText)],
     [kind |-> "tool_use", text |-> Text("none", EmptyText)]}
    \cup {[kind |-> "text", text |-> Text(f, b)] :
            f \in Fences,
            b \in {JsonText(v) : v \in SampleResults \cup {EmptyObject, NullValue}}
                  \cup {InvalidText}}
    \cup {[kind |-> "text", text |-> Text("none", JsonText(ResultVerbose))]}

\* what the OpenAI backend can answer to a request for response_format
\* json_object: no answer, an empty content, a JSON object, an object cut
\* short, or (from a backend that does not honour the format) a fenced object
OpenAIResponses ==
    {[kind |-> "error", content |-> Text("none", EmptyText)]}
    \cup {[kind |-> "message", content |-> Text("none", b)] :
            b \in {JsonText(v) : v \in SampleResults \cup {EmptyObject}}
                  \cup {InvalidText, EmptyText}}
    \cup {[kind |-> "message", content |-> Text(f, JsonText(v))] :
            f \in Fences, v \in SampleResults}

ClaudeExtractContext(response) ==
    IF response.kind = "error" THEN Rejected("APIError")
    ELSE IF response.kind # "text" THEN Rejected("Unexpected response type from Claude")
    ELSE LET parsed == JSONparse(extractJson(response.text))
         IN  IF parsed.ok THEN Fulfilled(parsed.value) ELSE Rejected("SyntaxError")

OpenAIExtractContext(response) ==
    IF response.kind = "error" THEN Rejected("APIError")
    ELSE LET content == IF response.content.body.syntax = "empty"
                        THEN Text("none", JsonText(EmptyObject))
                        ELSE response.content
             parsed == JSONparse(content)
         IN  IF parsed.ok THEN Fulfilled(parsed.value) ELSE Rejected("SyntaxError")

\* transcription backends: no answer, or a transcription whose confidence
\* and language may be missing (0, "")
TranscriptionData == [text : {1}, language : {"", "fr"}, confidence : {0, 180}]

TranscribeResponses ==
    {[kind |-> "error", data |-> [text |-> 0, language |-> "", confidence |-> 0]]}
    \cup {[kind |-> "ok", data |-> d] : d \in TranscriptionData}

KimiTranscribe(response) ==
    IF response.kind = "error" THEN Rejected("APIError")
    ELSE Fulfilled([json |-> "object", text |-> response.data.text,
                    language |-> response.data.language,
                    confidence |-> IF response.data.confidence # 0
                                   THEN response.data.confidence ELSE 190])

OpenAITranscribe(response) ==
    IF response.kind = "error" THEN Rejected("APIError")
    ELSE Fulfilled([json |-> "object", text |-> response.data.text,
                    language |-> IF response.data.language # ""
                                 THEN response.data.language ELSE "en",
                    confidence |-> 180])

\* a string result: a text, 0 for the empty string
StringValue(n) == [json |-> "string", text |-> n]

\* what the Anthropic backend can answer to a conversational query
ClaudeChatResponses ==
    {[kind |-> "error", reply |-> StringValue(0)],
     [kind |-> "tool_use", reply |-> StringValue(0)]}
    \cup {[kind |-> "text", reply |-> StringValue(n)] : n \in {0, 1}}

\* what the OpenAI backend can answer to a chat completion: no answer, or a
\* message whose content is null, empty or a text
OpenAIChatResponses ==
    {[kind |-> "error", reply |-> NullValue]}
    \cup {[kind |-> "message", reply |-> c] : c \in {NullValue, StringValue(0), StringValue(2)}}

ClaudeConversationalQuery(response) ==
    IF response.kind = "error" THEN Rejected("APIError")
    ELSE IF response.kind # "text" THEN Rejected("Unexpected response type from Claude")
    ELSE Fulfilled(response.reply)

\* this.openai.client.chat.completions.create(...)
OpenAIChatCompletion(response) ==
    IF response.kind = "error" THEN Rejected("APIError") ELSE Fulfilled(response.reply)

\* completion.choices[0].message.content || ''
contentOrEmpty(content) ==
    IF ~Truthy(content) \/ content = StringValue(0) THEN StringValue(0) ELSE content

\* what the Moonshot backend can answer to a chat completion asked for a
\* translation: no answer, or a message whose content is null, empty or a text
KimiChatResponses ==
    {[kind |-> "error", reply |-> NullValue]}
    \cup {[kind |-> "message", reply |-> c] : c \in {NullValue, StringValue(0), StringValue(3)}}

KimiTranslateContext(response) ==
    IF response.kind = "error" THEN Rejected("APIError") ELSE Fulfilled(response.reply)

\* the analysis of a code snippet
CodeAnalysis ==
    [json |-> "object", language |-> 1, purpose |-> 1, tags |-> <<1>>, documentation |-> 1]

\* what the Moonshot backend can answer to a chat completion asked for a code
\* analysis: no answer, a JSON object, or a text that is not JSON
KimiCodeResponses ==
    {[kind |-> "error", content |-> Text("none", EmptyText)]}
    \cup {[kind |-> "message", content |-> Text("none", b)] :
            b \in {JsonText(CodeAnalysis), JsonText(EmptyObject), InvalidText}}

KimiAnalyzeCode(response) ==
    IF response.kind = "error" THEN Rejected("APIError")
    ELSE LET parsed == JSONparse(response.content)
         IN  IF parsed.ok THEN Fulfilled(parsed.value) ELSE Rejected("SyntaxError")

\* what the OpenAI backend can answer to embeddings.create: no answer, or an
\* embedding (vectors are numbered)
EmbeddingResponses ==
    {[kind |-> "error", embedding |-> 0]}
    \cup {[kind |-> "ok", embedding |-> e] : e \in {1, 2}}

OpenAIGenerateEmbedding(response) ==
    IF response.kind = "error" THEN Rejected("APIError")
    ELSE Fulfilled([json |-> "object", embedding |-> response.embedding,
                    model |-> "text-embedding-3-large", dimensions |-> 1536])

OpenAICreateMemoryStory(response) ==
    IF response.kind = "error" THEN Rejected("APIError")
    ELSE Fulfilled(contentOrEmpty(response.reply))

(***************************************************************************)
(* fuseContextResults                                                      *)
(***************************************************************************)
\* the limit of allTags.slice(0, 10)
TagLimit == 10

RECURSIVE UniqueFrom(_, _)
UniqueFrom(s, acc) ==
    IF s = <<>> THEN acc
    ELSE UniqueFrom(Tail(s), IF Head(s) \in Range(acc) THEN acc ELSE Append(acc, Head(s)))

\* [...new Set(s)]: the first occurrence of every entry, in order
Unique(s) == UniqueFrom(s, <<>>)

\* s.slice(0, n)
Slice(s, n) == SubSeq(s, 1, IF Len(s) < n THEN Len(s) ELSE n)

\* mutant: every union is cut like the tags
UnionCut(a, b) == Slice(Unique(a \o b), TagLimit)

\* [...new Set([...a, ...b])]
Union(a, b) == Unique(a \o b)

\* mutant: the tags are concatenated and cut without passing through a Set
fuseTagsNoSet(claudeTags, openaiTags) == Slice(claudeTags \o openaiTags, TagLimit)

\* mutant: the concatenation is cut before it passes through the Set
fuseTagsCutFirst(claudeTags, openaiTags) == Unique(Slice(claudeTags \o openaiTags, TagLimit))

\* [...new Set([...claude.tags, ...openai.tags])].slice(0, 10)
fuseTags(claudeTags, openaiTags) == Slice(Union(claudeTags, openaiTags), TagLimit)

\* mutant: the priority of the first source
MathMaxFirst(a, b) == a

MathMax(a, b) == IF a >= b THEN a ELSE b

\* mutant: the second source gives summary, category and sentiment
favouredSecond(claude, openai) == openai

\* the source of summary, category and sentiment: claude.summary,
\* claude.category, claude.sentiment
favoured(claude, openai) == claude

\* mutant: claude.title || openai.title
fuseTitleFirst(claudeTitle, openaiTitle) ==
    IF claudeTitle # 0 THEN claudeTitle ELSE openaiTitle

\* openai.title || claude.title: the empty string is falsy
fuseTitle(claudeTitle, openaiTitle) ==
    IF openaiTitle # 0 THEN openaiTitle ELSE claudeTitle

\* mutant: claude.confidence + openai.confidence / 2
meanConfidenceUnparenthesised(claudeConfidence, openaiConfidence) ==
    claudeConfidence + openaiConfidence \div 2

\* (claude.confidence + openai.confidence) / 2
meanConfidence(claudeConfidence, openaiConfidence) ==
    (claudeConfidence + openaiConfidence) \div 2

\* spreading an undefined field throws a TypeError
Spreadable(v) == \A f \in ListFields : f \in DOMAIN v

fuseContextResults(claude, openai) ==
    IF ~Truthy(claude) THEN Returned(openai)
    ELSE IF ~Truthy(openai) THEN Returned(claude)
    ELSE IF ~(Spreadable(claude) /\ Spreadable(openai)) THEN Thrown("TypeError")
    ELSE Returned(
        [json |-> "object",
         summary |-> favoured(claude, openai).summary,
         title |-> fuseTitle(claude.title, openai.title),
         tags |-> fuseTags(claude.tags, openai.tags),
         people |-> Union(claude.people, openai.people),
         places |-> Union(claude.places, openai.places),
         dates |-> Union(claude.dates, openai.dates),
         tasks |-> Union(claude.tasks, openai.tasks),
         emotions |-> Union(claude.emotions, openai.emotions),
         priority |-> MathMax(claude.priority, openai.priority),
         category |-> favoured(claude, openai).category,
         sentiment |-> favoured(claude, openai).sentiment,
         confidence |-> meanConfidence(claude.confidence, openai.confidence)])

(***************************************************************************)
(* extractContext: the ensemble                                            *)
(***************************************************************************)
\* the providers extractContext calls
extractProvidersBoth(useEnsemble) == <<CLAUDE, OPENAI>>

extractProviders(useEnsemble) ==
    IF ~useEnsemble THEN <<CLAUDE>> ELSE <<CLAUDE, OPENAI>>

\* mutant: the results are collected in the order the promises settle
slotOfByCompletion(provider, order) == Len(order) + 1

\* the place of a provider's promise in the array given to Promise.allSettled,
\* which is its place in the array of results
slotOf(provider, order) == IF provider = CLAUDE THEN 1 ELSE 2

\* mutant: Promise.all, which rejects as soon as one promise rejects
allSettledFailFast(rs) ==
    \/ \E i \in 1..Len(rs) : rs[i].status = "rejected"
    \/ \A i \in 1..Len(rs) : rs[i].status = "fulfilled"

\* Promise.allSettled resolves once every promise is fulfilled or rejected
allSettled(rs) == \A i \in 1..Len(rs) : Settled(rs[i])

\* the statements after the await of Promise.allSettled
resolveEnsemble(claudeResult, openaiResult) ==
    LET claudeData == IF claudeResult.status = "fulfilled" THEN claudeResult.value ELSE NullValue
        openaiData == IF openaiResult.status = "fulfilled" THEN openaiResult.value ELSE NullValue
    IN  IF ~Truthy(claudeData) /\ ~Truthy(openaiData)
        THEN Thrown(AllProvidersFailed)
        ELSE fuseContextResults(claudeData, openaiData)

(***************************************************************************)
(* The stores of the application when it starts                            *)
(***************************************************************************)
\* monthlyLimit of initialState
monthlyLimit == 50

\* initialState of useMemoryStore; error null is the string "null"
initialState ==
    [memories |-> <<>>, isLoading |-> FALSE, isProcessing |-> FALSE, isSyncing |-> FALSE,
     error |-> "null", hasMore |-> TRUE, page |-> 0, processingProgress |-> 0,
     searchResults |-> <<>>, pendingOperations |-> <<>>, monthlyCount |-> 0, monthlyLimit |-> monthlyLimit]

\* the backend of memoryService before any request
initialServer == [created |-> <<>>]

\* the state useAuthStore is created with
initialAuth == [user |-> "null", isAuthenticated |-> FALSE, isLoading |-> TRUE, error |-> "null"]

\* both stores as created, no action called yet
AppInit ==
    /\ store = initialState
    /\ tasks = <<>>
    /\ server = initialServer
    /\ calls = <<>>
    /\ auth = initialAuth
    /\ authTasks = <<>>
    /\ secureStore = NullValue

(***************************************************************************)
(* State machine of the orchestrator: one public operation at a time       *)
(***************************************************************************)
NoCall ==
    [op |-> "none", useEnsemble |-> FALSE, provider |-> NoProvider,
     preferDepthArg |-> "undefined", preferDepth |-> FALSE]

\* no backend has answered
NoResponse == [kind |-> "none"]

NoResponses == [p \in AIProvider |-> NoResponse]

NoSelection == [capability |-> "none", userPreference |-> NoProvider, provider |-> NoProvider]

\* mutant: every transcribe downloads the audio before it asks its backend
requestPlanFetchAll(provider, method) ==
    CASE method = "transcribe" ->
             <<"fetch", IF provider = KIMI THEN "axios.post" ELSE "audio.transcriptions.create">>
      [] provider = CLAUDE -> <<"messages.create">>
      [] provider = KIMI -> <<"axios.post">>
      [] method = "generateEmbedding" -> <<"embeddings.create">>
      [] OTHER -> <<"chat.completions.create">>

\* the network requests a method of a provider client awaits, in order:
\* one request to the provider's backend, before which OpenAIProvider.transcribe
\* downloads the audio
requestPlan(provider, method) ==
    CASE provider = CLAUDE -> <<"messages.create">>
      [] provider = KIMI -> <<"axios.post">>
      [] method = "transcribe" -> <<"fetch", "audio.transcriptions.create">>
      [] method = "generateEmbedding" -> <<"embeddings.create">>
      [] OTHER -> <<"chat.completions.create">>

\* the first request of each of the client methods an operation invokes
firstRequests(invocations) ==
    [i \in 1..Len(invocations) |->
        <<invocations[i][1], requestPlan(invocations[i][1], invocations[i][2])[1]>>]

\* the requests of this operation that a provider client made
RequestsOf(provider) == SelectSeq(requests, LAMBDA r : r[1] = provider)

\* the method of a provider client this operation invoked
MethodOf(provider) ==
    (CHOOSE i \in Range(invoked) : i[1] = provider)[2]

\* the promise of the call of a provider client
CallOf(provider) ==
    CASE provider = CLAUDE -> claudeCall [] provider = KIMI -> kimiCall [] OTHER -> openaiCall

\* the request a pending call awaits is the last one of its method
LastRequestInFlight(provider) ==
    Len(RequestsOf(provider)) = Len(requestPlan(provider, MethodOf(provider)))

\* new AIOrchestrator(configs)
Init ==
    /\ preferredProvider = CLAUDE
    /\ pc = "idle"
    /\ call = NoCall
    /\ claudeCall = NotCalled
    /\ kimiCall = NotCalled
    /\ openaiCall = NotCalled
    /\ results = <<>>
    /\ settleOrder = <<>>
    /\ invoked = <<>>
    /\ outcome = NoOutcome
    /\ responses = NoResponses
    /\ requests = <<>>
    /\ selected = NoSelection
    /\ first = NullValue
    /\ second = NullValue
    /\ fused = NoOutcome
    /\ AppInit

\* setPreferredProvider(provider)
SetPreferredProvider(provider) ==
    /\ pc = "idle"
    /\ preferredProvider' = provider
    /\ UNCHANGED <<pc, call, claudeCall, kimiCall, openaiCall, results, settleOrder,
                   invoked, outcome, selected>>
    /\ UNCHANGED responses
    /\ UNCHANGED requests
    /\ UNCHANGED fuseVars
    /\ UNCHANGED appVars

\* selectProvider(capability, userPreference)
SelectProvider(capability, userPreference) ==
    /\ pc = "idle"
    /\ call' = [NoCall EXCEPT !.op = "selectProvider"]
    /\ selected' = [capability |-> capability, userPreference |-> userPreference,
                    provider |-> selectProvider(capability, userPreference, preferredProvider)]
    /\ pc' = "done"
    /\ UNCHANGED <<preferredProvider, claudeCall, kimiCall, openaiCall, results,
                   settleOrder, invoked, outcome>>
    /\ UNCHANGED responses
    /\ UNCHANGED requests
    /\ UNCHANGED fuseVars
    /\ UNCHANGED appVars

\* transcribeAudio(audioUrl, provider), up to the call of the client
TranscribeAudio(provider) ==
    /\ pc = "idle"
    /\ LET selectedProvider ==
               IF TruthyProvider(provider) THEN provider
               ELSE selectProvider(TRANSCRIPTION, NoProvider, preferredProvider)
           client == transcribeClient(selectedProvider)
       IN  /\ call' = [NoCall EXCEPT !.op = "transcribeAudio", !.provider = provider]
           /\ invoked' = <<<<client, "transcribe">>>>
           /\ kimiCall' = IF client = KIMI THEN Pending ELSE NotCalled
           /\ openaiCall' = IF client = OPENAI THEN Pending ELSE NotCalled
           /\ claudeCall' = NotCalled
    /\ pc' = "awaiting"
    /\ UNCHANGED <<preferredProvider, results, settleOrder, outcome, selected>>
    /\ UNCHANGED responses
    /\ requests' = firstRequests(invoked')
    /\ UNCHANGED fuseVars
    /\ UNCHANGED appVars

\* kimi.transcribe settles
KimiTranscribeSettles(response) ==
    /\ call.op = "transcribeAudio"
    /\ kimiCall.status = "pending"
    /\ LastRequestInFlight(KIMI)
    /\ kimiCall' = KimiTranscribe(response)
    /\ settleOrder' = Append(settleOrder, KIMI)
    /\ UNCHANGED <<preferredProvider, pc, call, claudeCall, openaiCall, results, invoked,
                   outcome, selected>>
    /\ responses' = [responses EXCEPT ![KIMI] = response]
    /\ UNCHANGED requests
    /\ UNCHANGED fuseVars
    /\ UNCHANGED appVars

\* await fetch(audioUrl) of a transcribe settles: with the audio, and the
\* method goes on to ask its backend, or with a network error, which rejects
\* the call
FetchAudioSettles(provider, ok) ==
    /\ call.op = "transcribeAudio"
    /\ CallOf(provider).status = "pending"
    /\ ~LastRequestInFlight(provider)
    /\ LET plan == requestPlan(provider, MethodOf(provider))
           promise == IF ok THEN Pending ELSE Rejected("NetworkError")
       IN  /\ requests' = IF ok
                          THEN Append(requests, <<provider, plan[Len(RequestsOf(provider)) + 1]>>)
                          ELSE requests
           /\ kimiCall' = IF provider = KIMI THEN promise ELSE kimiCall
           /\ openaiCall' = IF provider = OPENAI THEN promise ELSE openaiCall
    /\ settleOrder' = IF ok THEN settleOrder ELSE Append(settleOrder, provider)
    /\ UNCHANGED <<preferredProvider, pc, call, claudeCall, results, invoked, outcome,
                   responses, selected>>
    /\ UNCHANGED fuseVars
    /\ UNCHANGED appVars

\* openai.transcribe settles
OpenAITranscribeSettles(response) ==
    /\ call.op = "transcribeAudio"
    /\ openaiCall.status = "pending"
    /\ LastRequestInFlight(OPENAI)
    /\ openaiCall' = OpenAITranscribe(response)
    /\ settleOrder' = Append(settleOrder, OPENAI)
    /\ UNCHANGED <<preferredProvider, pc, call, claudeCall, kimiCall, results, invoked,
                   outcome, selected>>
    /\ responses' = [responses EXCEPT ![OPENAI] = response]
    /\ UNCHANGED requests
    /\ UNCHANGED fuseVars
    /\ UNCHANGED appVars

\* transcribeAudio completes as the promise it returned does
TranscribeReturn ==
    /\ pc = "awaiting"
    /\ call.op = "transcribeAudio"
    /\ LET promise == IF invoked[1][1] = KIMI THEN kimiCall ELSE openaiCall
       IN  /\ Settled(promise)
           /\ outcome' = Adopt(promise)
    /\ pc' = "done"
    /\ UNCHANGED <<preferredProvider, call, claudeCall, kimiCall, openaiCall, results,
                   settleOrder, invoked, selected>>
    /\ UNCHANGED responses
    /\ UNCHANGED requests
    /\ UNCHANGED fuseVars
    /\ UNCHANGED appVars

\* extractContext(text, useEnsemble), up to the first await: the provider
\* calls are made, in the order of the array literal
ExtractContext(useEnsemble) ==
    /\ pc = "idle"
    /\ LET providers == extractProviders(useEnsemble)
       IN  /\ invoked' = [i \in 1..Len(providers) |-> <<providers[i], "extractContext">>]
           /\ claudeCall' = IF CLAUDE \in Range(providers) THEN Pending ELSE NotCalled
           /\ openaiCall' = IF OPENAI \in Range(providers) THEN Pending ELSE NotCalled
    /\ call' = [NoCall EXCEPT !.op = "extractContext", !.useEnsemble = useEnsemble]
    /\ results' = IF useEnsemble THEN <<Pending, Pending>> ELSE <<>>
    /\ kimiCall' = NotCalled
    /\ pc' = "awaiting"
    /\ UNCHANGED <<preferredProvider, settleOrder, outcome, selected>>
    /\ UNCHANGED responses
    /\ requests' = firstRequests(invoked')
    /\ UNCHANGED fuseVars
    /\ UNCHANGED appVars

\* claude.extractContext settles
ClaudeExtractSettles(response) ==
    /\ call.op = "extractContext"
    /\ claudeCall.status = "pending"
    /\ claudeCall' = ClaudeExtractContext(response)
    /\ settleOrder' = Append(settleOrder, CLAUDE)
    /\ results' = IF call.useEnsemble
                  THEN [results EXCEPT ![slotOf(CLAUDE, settleOrder)] = claudeCall']
                  ELSE results
    /\ UNCHANGED <<preferredProvider, pc, call, kimiCall, openaiCall, invoked, outcome,
                   selected>>
    /\ responses' = [responses EXCEPT ![CLAUDE] = response]
    /\ UNCHANGED requests
    /\ UNCHANGED fuseVars
    /\ UNCHANGED appVars

\* openai.extractContext settles
OpenAIExtractSettles(response) ==
    /\ call.op = "extractContext"
    /\ openaiCall.status = "pending"
    /\ openaiCall' = OpenAIExtractContext(response)
    /\ settleOrder' = Append(settleOrder, OPENAI)
    /\ results' = IF call.useEnsemble
                  THEN [results EXCEPT ![slotOf(OPENAI, settleOrder)] = openaiCall']
                  ELSE results
    /\ UNCHANGED <<preferredProvider, pc, call, claudeCall, kimiCall, invoked, outcome,
                   selected>>
    /\ responses' = [responses EXCEPT ![OPENAI] = response]
    /\ UNCHANGED requests
    /\ UNCHANGED fuseVars
    /\ UNCHANGED appVars

\* extractContext(text, false) completes as claude.extractContext does
ExtractContextReturn ==
    /\ pc = "awaiting"
    /\ call.op = "extractContext"
    /\ ~call.useEnsemble
    /\ Settled(claudeCall)
    /\ outcome' = Adopt(claudeCall)
    /\ pc' = "done"
    /\ UNCHANGED <<preferredProvider, call, claudeCall, kimiCall, openaiCall, results,
                   settleOrder, invoked, selected>>
    /\ UNCHANGED responses
    /\ UNCHANGED requests
    /\ UNCHANGED fuseVars
    /\ UNCHANGED appVars

\* the ensemble: Promise.allSettled resolves, the results are fused
ExtractContextJoin ==
    /\ pc = "awaiting"
    /\ call.op = "extractContext"
    /\ call.useEnsemble
    /\ allSettled(results)
    /\ outcome' = resolveEnsemble(results[1], results[2])
    /\ pc' = "done"
    /\ UNCHANGED <<preferredProvider, call, claudeCall, kimiCall, openaiCall, results,
                   settleOrder, invoked, selected>>
    /\ UNCHANGED responses
    /\ UNCHANGED requests
    /\ UNCHANGED fuseVars
    /\ UNCHANGED appVars

\* mutant: the conversation is routed by the table entry of Conversation
conversationProviderTable(preferDepth) == capabilityMap[CONVERSATION]

\* the provider conversationalQuery talks to
conversationProvider(preferDepth) == IF preferDepth THEN CLAUDE ELSE OPENAI

\* preferDepth: boolean = true, the parameter's value for the argument given
\* ("undefined" when the caller gives none)
defaultPreferDepth(arg) == IF arg = "undefined" THEN TRUE ELSE arg = "true"

\* conversationalQuery(query, memories, preferDepth), up to the call of the
\* provider
ConversationalQuery(preferDepthArg) ==
    /\ pc = "idle"
    /\ LET provider == conversationProvider(defaultPreferDepth(preferDepthArg))
       IN  /\ invoked' = IF provider = CLAUDE
                         THEN <<<<CLAUDE, "conversationalQuery">>>>
                         ELSE <<<<OPENAI, "client.chat.completions.create">>>>
           /\ claudeCall' = IF provider = CLAUDE THEN Pending ELSE NotCalled
           /\ openaiCall' = IF provider = OPENAI THEN Pending ELSE NotCalled
    /\ call' = [NoCall EXCEPT !.op = "conversationalQuery",
                             !.preferDepthArg = preferDepthArg,
                             !.preferDepth = defaultPreferDepth(preferDepthArg)]
    /\ kimiCall' = NotCalled
    /\ pc' = "awaiting"
    /\ UNCHANGED <<preferredProvider, results, settleOrder, outcome, responses, selected>>
    /\ requests' = firstRequests(invoked')
    /\ UNCHANGED fuseVars
    /\ UNCHANGED appVars

\* claude.conversationalQuery settles
ClaudeConverseSettles(response) ==
    /\ call.op = "conversationalQuery"
    /\ claudeCall.status = "pending"
    /\ claudeCall' = ClaudeConversationalQuery(response)
    /\ settleOrder' = Append(settleOrder, CLAUDE)
    /\ responses' = [responses EXCEPT ![CLAUDE] = response]
    /\ UNCHANGED <<preferredProvider, pc, call, kimiCall, openaiCall, results, invoked,
                   outcome, selected>>
    /\ UNCHANGED requests
    /\ UNCHANGED fuseVars
    /\ UNCHANGED appVars

\* the chat completion of the OpenAI client settles
OpenAIConverseSettles(response) ==
    /\ call.op = "conversationalQuery"
    /\ openaiCall.status = "pending"
    /\ openaiCall' = OpenAIChatCompletion(response)
    /\ settleOrder' = Append(settleOrder, OPENAI)
    /\ responses' = [responses EXCEPT ![OPENAI] = response]
    /\ UNCHANGED <<preferredProvider, pc, call, claudeCall, kimiCall, results, invoked,
                   outcome, selected>>
    /\ UNCHANGED requests
    /\ UNCHANGED fuseVars
    /\ UNCHANGED appVars

\* conversationalQuery completes: as claude.conversationalQuery does, or
\* with the content of the awaited completion
ConversationalQueryReturn ==
    /\ pc = "awaiting"
    /\ call.op = "conversationalQuery"
    /\ IF invoked[1][1] = CLAUDE
       THEN /\ Settled(claudeCall)
            /\ outcome' = Adopt(claudeCall)
       ELSE /\ Settled(openaiCall)
            /\ outcome' = IF openaiCall.status = "fulfilled"
                          THEN Returned(contentOrEmpty(openaiCall.value))
                          ELSE Thrown(openaiCall.reason)
    /\ pc' = "done"
    /\ UNCHANGED <<preferredProvider, call, claudeCall, kimiCall, openaiCall, results,
                   settleOrder, invoked, responses, selected>>
    /\ UNCHANGED requests
    /\ UNCHANGED fuseVars
    /\ UNCHANGED appVars

\* the operations that delegate to one client
DelegatedOperations == {"generateEmbedding", "translateMemory", "analyzeCode", "createMemoryStory"}

\* mutant: code is analysed by Claude, which lists the capability
delegateInvocationClaudeCode(op) ==
    CASE op = "generateEmbedding" -> <<OPENAI, "generateEmbedding">>
      [] op = "translateMemory" -> <<KIMI, "translateContext">>
      [] op = "analyzeCode" -> <<CLAUDE, "analyzeCode">>
      [] op = "createMemoryStory" -> <<OPENAI, "createMemoryStory">>

\* the client method each delegating operation calls
delegateInvocation(op) ==
    CASE op = "generateEmbedding" -> <<OPENAI, "generateEmbedding">>
      [] op = "translateMemory" -> <<KIMI, "translateContext">>
      [] op = "analyzeCode" -> <<KIMI, "analyzeCode">>
      [] op = "createMemoryStory" -> <<OPENAI, "createMemoryStory">>

\* a delegating operation, up to the call of its client
Delegate(op) ==
    /\ pc = "idle"
    /\ call' = [NoCall EXCEPT !.op = op]
    /\ invoked' = <<delegateInvocation(op)>>
    /\ claudeCall' = IF invoked'[1][1] = CLAUDE THEN Pending ELSE NotCalled
    /\ kimiCall' = IF invoked'[1][1] = KIMI THEN Pending ELSE NotCalled
    /\ openaiCall' = IF invoked'[1][1] = OPENAI THEN Pending ELSE NotCalled
    /\ requests' = firstRequests(invoked')
    /\ pc' = "awaiting"
    /\ UNCHANGED <<preferredProvider, results, settleOrder, outcome, responses, selected>>
    /\ UNCHANGED fuseVars
    /\ UNCHANGED appVars

\* generateEmbedding(text), up to the await
GenerateEmbedding == Delegate("generateEmbedding")

\* translateMemory(text, targetLanguage)
TranslateMemory == Delegate("translateMemory")

\* analyzeCode(code)
AnalyzeCode == Delegate("analyzeCode")

\* createMemoryStory(memories)
CreateMemoryStory == Delegate("createMemoryStory")

\* the call of the Kimi client made by a delegating operation settles
KimiDelegateSettles(response) ==
    /\ call.op \in DelegatedOperations
    /\ kimiCall.status = "pending"
    /\ \/ /\ MethodOf(KIMI) = "translateContext"
          /\ response \in KimiChatResponses
          /\ kimiCall' = KimiTranslateContext(response)
       \/ /\ MethodOf(KIMI) = "analyzeCode"
          /\ response \in KimiCodeResponses
          /\ kimiCall' = KimiAnalyzeCode(response)
    /\ settleOrder' = Append(settleOrder, KIMI)
    /\ responses' = [responses EXCEPT ![KIMI] = response]
    /\ UNCHANGED <<preferredProvider, pc, call, claudeCall, openaiCall, results, invoked,
                   outcome, requests, selected>>
    /\ UNCHANGED fuseVars
    /\ UNCHANGED appVars

\* the call of the OpenAI client made by a delegating operation settles
OpenAIDelegateSettles(response) ==
    /\ call.op \in DelegatedOperations
    /\ openaiCall.status = "pending"
    /\ \/ /\ MethodOf(OPENAI) = "generateEmbedding"
          /\ response \in EmbeddingResponses
          /\ openaiCall' = OpenAIGenerateEmbedding(response)
       \/ /\ MethodOf(OPENAI) = "createMemoryStory"
          /\ response \in OpenAIChatResponses
          /\ openaiCall' = OpenAICreateMemoryStory(response)
    /\ settleOrder' = Append(settleOrder, OPENAI)
    /\ responses' = [responses EXCEPT ![OPENAI] = response]
    /\ UNCHANGED <<preferredProvider, pc, call, claudeCall, kimiCall, results, invoked,
                   outcome, requests, selected>>
    /\ UNCHANGED fuseVars
    /\ UNCHANGED appVars

\* a delegating operation completes as the promise of its client does;
\* generateEmbedding returns the embedding of the awaited result
DelegateReturn ==
    /\ pc = "awaiting"
    /\ call.op \in DelegatedOperations
    /\ LET promise == CallOf(invoked[1][1])
       IN  /\ Settled(promise)
           /\ outcome' = IF call.op = "generateEmbedding" /\ promise.status = "fulfilled"
                         THEN Returned([json |-> "array", embedding |-> promise.value.embedding])
                         ELSE Adopt(promise)
    /\ pc' = "done"
    /\ UNCHANGED <<preferredProvider, call, claudeCall, kimiCall, openaiCall, results,
                   settleOrder, invoked, responses, requests, selected>>
    /\ UNCHANGED fuseVars
    /\ UNCHANGED appVars

\* getAllCapabilities(): a new record of the three clients' getCapabilities()
getAllCapabilities ==
    [json |-> "object", entries |-> [p \in AIProvider |-> getCapabilities[p]]]

GetAllCapabilities ==
    /\ pc = "idle"
    /\ call' = [NoCall EXCEPT !.op = "getAllCapabilities"]
    /\ invoked' = <<<<CLAUDE, "getCapabilities">>, <<KIMI, "getCapabilities">>,
                    <<OPENAI, "getCapabilities">>>>
    /\ outcome' = Returned(getAllCapabilities)
    /\ pc' = "done"
    /\ UNCHANGED <<preferredProvider, claudeCall, kimiCall, openaiCall, results, settleOrder,
                   responses, requests, selected>>
    /\ UNCHANGED fuseVars
    /\ UNCHANGED appVars

\* the field providers of the AIOrchestrator of src/services/ai/AIProvider.ts
stubProviders == [claude |-> TRUE, kimi |-> TRUE, openai |-> TRUE, gemini |-> TRUE]

\* getAllCapabilities() of that class: the field itself
StubGetAllCapabilities ==
    /\ pc = "idle"
    /\ call' = [NoCall EXCEPT !.op = "getAllCapabilities"]
    /\ invoked' = <<>>
    /\ outcome' = Returned([json |-> "object", entries |-> stubProviders])
    /\ pc' = "done"
    /\ UNCHANGED <<preferredProvider, claudeCall, kimiCall, openaiCall, results, settleOrder,
                   responses, requests, selected>>
    /\ UNCHANGED fuseVars
    /\ UNCHANGED appVars

\* the caller has the outcome; the orchestrator takes the next operation
Finish ==
    /\ pc = "done"
    /\ pc' = "idle"
    /\ call' = NoCall
    /\ claudeCall' = NotCalled
    /\ kimiCall' = NotCalled
    /\ openaiCall' = NotCalled
    /\ results' = <<>>
    /\ settleOrder' = <<>>
    /\ invoked' = <<>>
    /\ outcome' = NoOutcome
    /\ responses' = NoResponses
    /\ requests' = <<>>
    /\ selected' = NoSelection
    /\ UNCHANGED preferredProvider
    /\ UNCHANGED fuseVars
    /\ UNCHANGED appVars

Next ==
    \/ \E provider \in AIProvider : SetPreferredProvider(provider)
    \/ \E capability \in AICapability, userPreference \in AIProvider \cup {NoProvider} :
          SelectProvider(capability, userPreference)
    \/ \E provider \in AIProvider \cup {NoProvider} : TranscribeAudio(provider)
    \/ \E response \in TranscribeResponses : KimiTranscribeSettles(response)
    \/ \E provider \in AIProvider, ok \in BOOLEAN : FetchAudioSettles(provider, ok)
    \/ \E response \in TranscribeResponses : OpenAITranscribeSettles(response)
    \/ TranscribeReturn
    \/ \E useEnsemble \in BOOLEAN : ExtractContext(useEnsemble)
    \/ \E response \in ClaudeResponses : ClaudeExtractSettles(response)
    \/ \E response \in OpenAIResponses : OpenAIExtractSettles(response)
    \/ ExtractContextReturn
    \/ ExtractContextJoin
    \/ \E preferDepthArg \in {"true", "false", "undefined"} :
          ConversationalQuery(preferDepthArg)
    \/ \E response \in ClaudeChatResponses : ClaudeConverseSettles(response)
    \/ \E response \in OpenAIChatResponses : OpenAIConverseSettles(response)
    \/ ConversationalQueryReturn
    \/ GenerateEmbedding
    \/ TranslateMemory
    \/ AnalyzeCode
    \/ CreateMemoryStory
    \/ \E response \in KimiChatResponses \cup KimiCodeResponses : KimiDelegateSettles(response)
    \/ \E response \in EmbeddingResponses \cup OpenAIChatResponses :
          OpenAIDelegateSettles(response)
    \/ DelegateReturn
    \/ GetAllCapabilities
    \/ StubGetAllCapabilities
    \/ Finish

Spec == Init /\ [][Next]_vars

(***************************************************************************)
(* fuseContextResults on its own: the inputs are drawn from FuseInputs     *)
(***************************************************************************)
\* the tags lo, lo+1, ..., hi
Run(lo, hi) == [i \in 1..(hi - lo + 1) |-> lo + i - 1]

\* tag sequences: runs, and runs that repeat their first tag at the end
TagSeqs ==
    UNION {{Run(lo, hi) : hi \in (lo - 1)..MaxTag} : lo \in 1..MaxTag}
    \cup UNION {{Run(lo, hi) \o <<lo>> : hi \in lo..MaxTag} : lo \in 1..MaxTag}

WithTags(ts) == [ResultA EXCEPT !.tags = ts]

\* the largest priority: "priority": 0-5
MaxPriority == 5

\* sequences for people, places, dates, tasks and emotions: short and long,
\* overlapping, with repetitions, in and out of order
ListSeqs ==
    {<<>>, Run(1, 6), Run(4, MaxTag), Run(1, MaxTag), Run(7, MaxTag) \o <<7>>,
     <<2, 1, 2>>, <<MaxTag, 3>>}

\* results that differ from ResultA in one array-valued field
ListInputs ==
    {[ResultA EXCEPT ![f] = l] : f \in ListFields \ {"tags"}, l \in ListSeqs}

\* results with every priority
PriorityInputs == {[ResultA EXCEPT !.priority = q] : q \in 0..MaxPriority}

\* results with confidences from 0 to 1 in steps of 0.05
ConfidenceInputs == {[ResultA EXCEPT !.confidence = 10 * k] : k \in 0..20}

\* results with every combination of two summaries, categories, sentiments
\* and of an empty and two other titles
ProseInputs ==
    {[ResultA EXCEPT !.summary = su, !.category = c, !.sentiment = se, !.title = t] :
        su \in {1, 2}, c \in {"work", "personal"}, se \in {"neutral", "positive"},
        t \in {0, 1, 2}}

FuseInputs ==
    {WithTags(ts) : ts \in TagSeqs} \cup {NullValue} \cup SampleResults \cup ListInputs
    \cup PriorityInputs \cup ConfidenceInputs \cup ProseInputs

FuseInit ==
    /\ preferredProvider = CLAUDE
    /\ pc = "idle"
    /\ call = NoCall
    /\ claudeCall = NotCalled
    /\ kimiCall = NotCalled
    /\ openaiCall = NotCalled
    /\ results = <<>>
    /\ settleOrder = <<>>
    /\ invoked = <<>>
    /\ outcome = NoOutcome
    /\ responses = NoResponses
    /\ requests = <<>>
    /\ selected = NoSelection
    /\ first \in FuseInputs
    /\ second \in FuseInputs
    /\ Truthy(first) \/ Truthy(second)
    /\ fused = NoOutcome
    /\ AppInit

\* fuseContextResults(first, second)
FuseContextResults ==
    /\ fused = NoOutcome
    /\ fused' = fuseContextResults(first, second)
    /\ UNCHANGED <<first, second>>
    /\ UNCHANGED orchVars
    /\ UNCHANGED appVars

FuseNext == FuseContextResults

FuseSpec == FuseInit /\ [][FuseNext]_vars

(***************************************************************************)
(* useMemoryStore (src/unnamed/part_003): every call of a store action is  *)
(* a task; a task runs to its next await in one step and is resumed when   *)
(* the awaited call settles, so that calls interleave at their awaits.     *)
(* A page of memoryService.fetchMemories is abstracted to one memory whose *)
(* id is the number of the page; a created memory has id 100 + the number  *)
(* of its createMemory call.                                               *)
(***************************************************************************)
\* number of calls of store actions in one behaviour
MaxCalls == 3

\* number of calls of createMemory in one behaviour
MaxCreates == 2

\* messages of the errors the awaited services reject with
ServiceErrors == {"network request failed", "Internal server error"}

\* the error thrown by createMemory when canCreateMemory() is false
LimitError == "Monthly memory limit reached. Please upgrade to Pro."

\* error.message.includes('network') || error.message.includes('offline')
includesNetworkOrOffline(message) == message \in {"network request failed", "device is offline"}

\* arguments of createMemory: media type and whether input.audioUrl is set
MemoryInputs ==
    {[mediaType |-> "voice", audioUrl |-> TRUE], [mediaType |-> "voice", audioUrl |-> FALSE],
     [mediaType |-> "text", audioUrl |-> TRUE]}

\* ids passed to updateMemory, deleteMemory and the batch operations
MemoryIds == {0}

\* one memory of the list
Memory(id) == [id |-> id, edited |-> FALSE, isArchived |-> FALSE]

\* a call of a store action that has not reached an await yet
NewTask(action) ==
    [action |-> action, pc |-> "start", input |-> [mediaType |-> "text", audioUrl |-> FALSE],
     context |-> "none", reset |-> FALSE, currentPage |-> 0, id |-> 0, queue |-> <<>>,
     error |-> "null"]

\* an entry of pendingOperations; crypto.randomUUID() is the number of the call
PendingOperation(t, type, id) == [id |-> t, type |-> type, data |-> id]

\* the persisted fields as an earlier session left them: one memory short of the
\* monthly limit, one update waiting for the next sync
rehydrated == [monthlyCount |-> monthlyLimit - 1,
               pendingOperations |-> <<PendingOperation(0, "update", 0)>>]

\* the store after rehydration of the persisted fields
StoreInit ==
    /\ preferredProvider = CLAUDE
    /\ pc = "idle"
    /\ call = NoCall
    /\ claudeCall = NotCalled
    /\ kimiCall = NotCalled
    /\ openaiCall = NotCalled
    /\ results = <<>>
    /\ settleOrder = <<>>
    /\ invoked = <<>>
    /\ outcome = NoOutcome
    /\ responses = NoResponses
    /\ requests = <<>>
    /\ selected = NoSelection
    /\ first = NullValue
    /\ second = NullValue
    /\ fused = NoOutcome
    /\ store = [initialState EXCEPT !.monthlyCount = rehydrated.monthlyCount,
                                    !.pendingOperations = rehydrated.pendingOperations]
    /\ tasks = <<>>
    /\ server = initialServer
    /\ calls = <<>>
    /\ auth = initialAuth
    /\ authTasks = <<>>
    /\ secureStore = NullValue

\* canCreateMemory()
canCreateMemory(state) == state.monthlyCount < state.monthlyLimit

\* the calls of createMemory among the tasks ts
CreateTasks(ts) == {t \in 1..Len(ts) : ts[t].action = "createMemory"}

\* the tasks awaiting the call named callee
Awaiting(callee) == {t \in 1..Len(tasks) : tasks[t].pc = callee}

\* a new call of a store action starts: task and the calls it made so far
StartTask(task, made) ==
    /\ tasks' = Append(tasks, task)
    /\ calls' = Append(calls, made)

\* task t goes on to await callee
AwaitNext(t, task, callee) ==
    /\ tasks' = [tasks EXCEPT ![t] = [task EXCEPT !.pc = callee]]
    /\ calls' = [calls EXCEPT ![t] = Append(@, callee)]

\* task t completes without another call; its locals are gone
Complete(t, task, how) ==
    /\ tasks' = [tasks EXCEPT ![t] = [NewTask(task.action) EXCEPT !.pc = how,
                                                                !.input = task.input,
                                                                !.error = task.error]]
    /\ UNCHANGED calls

\* a catch block of createMemory that leaves processingProgress as it was
createMemoryCatchKeepsProgress(state, t, message) ==
    LET failed == [state EXCEPT !.error = message, !.isProcessing = FALSE]
    IN  IF includesNetworkOrOffline(message)
        THEN [failed EXCEPT !.pendingOperations = Append(@, PendingOperation(t, "create", 0))]
        ELSE failed

\* the error a catch block receives when the awaited call settled with result
caught(result) ==
    IF result \in {"fulfilled", "page", "end"} THEN "null" ELSE result

\* the catch block of createMemory
createMemoryCatch(state, t, message) ==
    LET failed == [state EXCEPT !.error = message, !.isProcessing = FALSE,
                                !.processingProgress = 0]
    IN  IF includesNetworkOrOffline(message)
        THEN [failed EXCEPT !.pendingOperations = Append(@, PendingOperation(t, "create", 0))]
        ELSE failed

\* createMemory(input) up to its first await
CreateMemory(input) ==
    /\ Len(tasks) < MaxCalls
    /\ Cardinality(CreateTasks(tasks)) < MaxCreates
    /\ LET t == Len(tasks) + 1
           task == [NewTask("createMemory") EXCEPT !.input = input]
           started == [store EXCEPT !.isProcessing = TRUE, !.processingProgress = 0,
                                    !.error = "null"]
       IN  IF ~canCreateMemory(started)
           THEN /\ store' = createMemoryCatch(started, t, LimitError)
                /\ StartTask([task EXCEPT !.pc = "thrown", !.error = LimitError], <<>>)
           ELSE IF input.mediaType = "voice" /\ input.audioUrl
           THEN /\ store' = [started EXCEPT !.processingProgress = 10]
                /\ StartTask([task EXCEPT !.pc = "transcribeAudio"], <<"transcribeAudio">>)
           ELSE /\ store' = [started EXCEPT !.processingProgress = 40]
                /\ StartTask([task EXCEPT !.pc = "extractContext"], <<"extractContext">>)
    /\ UNCHANGED server
    /\ UNCHANGED <<orchVars, fuseVars, authVars>>

\* createMemory: a step of task t failed with message
CreateMemoryThrows(t, message) ==
    /\ store' = createMemoryCatch(store, t, message)
    /\ Complete(t, [tasks[t] EXCEPT !.error = message], "thrown")

\* createMemory: aiOrchestrator.transcribeAudio settles
CreateMemoryTranscribed(t, result) ==
    /\ t \in Awaiting("transcribeAudio")
    /\ IF result = "fulfilled"
       THEN /\ store' = [store EXCEPT !.processingProgress = 40]
            /\ AwaitNext(t, tasks[t], "extractContext")
       ELSE CreateMemoryThrows(t, result)
    /\ UNCHANGED server
    /\ UNCHANGED <<orchVars, fuseVars, authVars>>

\* createMemory: aiOrchestrator.extractContext settles; context is the result or null
CreateMemoryExtracted(t, result) ==
    /\ t \in Awaiting("extractContext")
    /\ IF result \in {"context", "null"}
       THEN /\ store' = [store EXCEPT !.processingProgress = 60]
            /\ AwaitNext(t, [tasks[t] EXCEPT !.context = result], "generateEmbedding")
       ELSE CreateMemoryThrows(t, result)
    /\ UNCHANGED server
    /\ UNCHANGED <<orchVars, fuseVars, authVars>>

\* reading context.summary of null
TypeErrorNull == "Cannot read properties of null (reading 'summary')"

\* createMemory: aiOrchestrator.generateEmbedding settles
CreateMemoryEmbedded(t, result) ==
    /\ t \in Awaiting("generateEmbedding")
    /\ IF result = "fulfilled"
       THEN IF tasks[t].context = "null"
            THEN CreateMemoryThrows(t, TypeErrorNull)
            ELSE /\ store' = [store EXCEPT !.processingProgress = 80]
                 /\ AwaitNext(t, tasks[t], "memoryService.createMemory")
       ELSE CreateMemoryThrows(t, result)
    /\ UNCHANGED server
    /\ UNCHANGED <<orchVars, fuseVars, authVars>>

\* createMemory: memoryService.createMemory settles
CreateMemoryPersisted(t, result) ==
    /\ t \in Awaiting("memoryService.createMemory")
    /\ IF result = "fulfilled"
       THEN /\ server' = [server EXCEPT !.created = Append(@, 100 + t)]
            /\ store' = [store EXCEPT !.memories = <<Memory(100 + t)>> \o @,
                                      !.monthlyCount = @ + 1,
                                      !.processingProgress = 100,
                                      !.isProcessing = FALSE]
            /\ Complete(t, tasks[t], "returned")
       ELSE /\ CreateMemoryThrows(t, result)
            /\ UNCHANGED server
    /\ UNCHANGED <<orchVars, fuseVars, authVars>>

\* resetMonthlyCount()
ResetMonthlyCount ==
    /\ store' = [store EXCEPT !.monthlyCount = 0]
    /\ UNCHANGED <<tasks, server, calls>>
    /\ UNCHANGED <<orchVars, fuseVars, authVars>>

\* what memoryService.fetchMemories resolves with: a full page or nothing more
FetchedPages == {"page", "end"}

\* fetchMemories(reset) up to its await
FetchMemories(reset) ==
    /\ Len(tasks) < MaxCalls
    /\ IF store.isLoading
       THEN /\ StartTask([NewTask("fetchMemories") EXCEPT !.reset = reset, !.pc = "returned"],
                         <<>>)
            /\ UNCHANGED store
       ELSE /\ store' = [store EXCEPT !.isLoading = TRUE, !.error = "null"]
            /\ StartTask([NewTask("fetchMemories") EXCEPT
                              !.reset = reset,
                              !.currentPage = IF reset THEN 0 ELSE store.page,
                              !.pc = "memoryService.fetchMemories"],
                         <<"memoryService.fetchMemories">>)
    /\ UNCHANGED server
    /\ UNCHANGED <<orchVars, fuseVars, authVars>>

\* fetchMemories: memoryService.fetchMemories settles
FetchMemoriesSettles(t, result) ==
    /\ t \in Awaiting("memoryService.fetchMemories")
    /\ IF result \in FetchedPages
       THEN LET fetchedMemories ==
                    IF result = "page" THEN <<Memory(tasks[t].currentPage)>> ELSE <<>>
            IN  store' = [store EXCEPT
                              !.memories = IF tasks[t].reset THEN fetchedMemories
                                           ELSE @ \o fetchedMemories,
                              !.page = tasks[t].currentPage + 1,
                              !.hasMore = (result = "page"),
                              !.isLoading = FALSE]
       ELSE store' = [store EXCEPT !.error = result, !.isLoading = FALSE]
    /\ Complete(t, [tasks[t] EXCEPT !.error = caught(result)], "returned")
    /\ UNCHANGED server
    /\ UNCHANGED <<orchVars, fuseVars, authVars>>

\* updateMemory(id, updates) up to its await
UpdateMemory(id) ==
    /\ Len(tasks) < MaxCalls
    /\ store' = [store EXCEPT !.isLoading = TRUE, !.error = "null"]
    /\ StartTask([NewTask("updateMemory") EXCEPT !.id = id, !.pc = "memoryService.updateMemory"],
                 <<"memoryService.updateMemory">>)
    /\ UNCHANGED server
    /\ UNCHANGED <<orchVars, fuseVars, authVars>>

\* state.memories with updates merged into the memory of this id
withUpdates(memories, id) ==
    [i \in 1..Len(memories) |->
        IF memories[i].id = id THEN [memories[i] EXCEPT !.edited = TRUE] ELSE memories[i]]

\* updateMemory: memoryService.updateMemory settles
UpdateMemorySettles(t, result) ==
    /\ t \in Awaiting("memoryService.updateMemory")
    /\ tasks[t].action = "updateMemory"
    /\ IF result = "fulfilled"
       THEN store' = [store EXCEPT !.memories = withUpdates(@, tasks[t].id),
                                   !.isLoading = FALSE]
       ELSE store' = [store EXCEPT
                          !.error = result, !.isLoading = FALSE,
                          !.pendingOperations =
                              Append(@, PendingOperation(t, "update", tasks[t].id))]
    /\ Complete(t, [tasks[t] EXCEPT !.error = caught(result)], "returned")
    /\ UNCHANGED server
    /\ UNCHANGED <<orchVars, fuseVars, authVars>>

\* deleteMemory(id) up to its await
DeleteMemory(id) ==
    /\ Len(tasks) < MaxCalls
    /\ store' = [store EXCEPT !.isLoading = TRUE, !.error = "null"]
    /\ StartTask([NewTask("deleteMemory") EXCEPT !.id = id, !.pc = "memoryService.deleteMemory"],
                 <<"memoryService.deleteMemory">>)
    /\ UNCHANGED server
    /\ UNCHANGED <<orchVars, fuseVars, authVars>>

\* state.memories.filter(m => !ids.includes(m.id))
withoutIds(memories, ids) == SelectSeq(memories, LAMBDA m : m.id \notin ids)

\* deleteMemory: memoryService.deleteMemory settles
DeleteMemorySettles(t, result) ==
    /\ t \in Awaiting("memoryService.deleteMemory")
    /\ tasks[t].action = "deleteMemory"
    /\ IF result = "fulfilled"
       THEN store' = [store EXCEPT !.memories = withoutIds(@, {tasks[t].id}),
                                   !.isLoading = FALSE]
       ELSE store' = [store EXCEPT
                          !.error = result, !.isLoading = FALSE,
                          !.pendingOperations =
                              Append(@, PendingOperation(t, "delete", tasks[t].id))]
    /\ Complete(t, [tasks[t] EXCEPT !.error = caught(result)], "returned")
    /\ UNCHANGED server
    /\ UNCHANGED <<orchVars, fuseVars, authVars>>

\* deleteMultiple(ids) up to its await of Promise.all; ids is the list MemoryIds
DeleteMultiple ==
    /\ Len(tasks) < MaxCalls
    /\ store' = [store EXCEPT !.isLoading = TRUE, !.error = "null"]
    /\ StartTask([NewTask("deleteMultiple") EXCEPT !.pc = "memoryService.deleteMemory"],
                 <<"memoryService.deleteMemory">>)
    /\ UNCHANGED server
    /\ UNCHANGED <<orchVars, fuseVars, authVars>>

\* deleteMultiple: Promise.all settles
DeleteMultipleSettles(t, result) ==
    /\ t \in Awaiting("memoryService.deleteMemory")
    /\ tasks[t].action = "deleteMultiple"
    /\ IF result = "fulfilled"
       THEN store' = [store EXCEPT !.memories = withoutIds(@, MemoryIds),
                                   !.isLoading = FALSE]
       ELSE store' = [store EXCEPT !.error = result, !.isLoading = FALSE]
    /\ Complete(t, [tasks[t] EXCEPT !.error = caught(result)], "returned")
    /\ UNCHANGED server
    /\ UNCHANGED <<orchVars, fuseVars, authVars>>

\* archiveMultiple(ids) up to its await of Promise.all; ids is the list MemoryIds
ArchiveMultiple ==
    /\ Len(tasks) < MaxCalls
    /\ store' = [store EXCEPT !.isLoading = TRUE, !.error = "null"]
    /\ StartTask([NewTask("archiveMultiple") EXCEPT !.pc = "memoryService.updateMemory"],
                 <<"memoryService.updateMemory">>)
    /\ UNCHANGED server
    /\ UNCHANGED <<orchVars, fuseVars, authVars>>

\* state.memories with isArchived set on the memories of ids
withArchived(memories, ids) ==
    [i \in 1..Len(memories) |->
        IF memories[i].id \in ids THEN [memories[i] EXCEPT !.isArchived = TRUE]
        ELSE memories[i]]

\* archiveMultiple: Promise.all settles
ArchiveMultipleSettles(t, result) ==
    /\ t \in Awaiting("memoryService.updateMemory")
    /\ tasks[t].action = "archiveMultiple"
    /\ IF result = "fulfilled"
       THEN store' = [store EXCEPT !.memories = withArchived(@, MemoryIds),
                                   !.isLoading = FALSE]
       ELSE store' = [store EXCEPT !.error = result, !.isLoading = FALSE]
    /\ Complete(t, [tasks[t] EXCEPT !.error = caught(result)], "returned")
    /\ UNCHANGED server
    /\ UNCHANGED <<orchVars, fuseVars, authVars>>

\* searchMemories(query, filters) up to its await
SearchMemories ==
    /\ Len(tasks) < MaxCalls
    /\ store' = [store EXCEPT !.isLoading = TRUE, !.error = "null"]
    /\ StartTask([NewTask("searchMemories") EXCEPT !.pc = "memoryService.searchMemories"],
                 <<"memoryService.searchMemories">>)
    /\ UNCHANGED server
    /\ UNCHANGED <<orchVars, fuseVars, authVars>>

\* searchMemories: memoryService.searchMemories settles
SearchMemoriesSettles(t, result) ==
    /\ t \in Awaiting("memoryService.searchMemories")
    /\ IF result = "fulfilled"
       THEN store' = [store EXCEPT !.searchResults = <<Memory(0)>>, !.isLoading = FALSE]
       ELSE store' = [store EXCEPT !.error = result, !.isLoading = FALSE]
    /\ Complete(t, [tasks[t] EXCEPT !.error = caught(result)], "returned")
    /\ UNCHANGED server
    /\ UNCHANGED <<orchVars, fuseVars, authVars>>

\* syncOfflineChanges() up to its await
SyncOfflineChanges ==
    /\ Len(tasks) < MaxCalls
    /\ IF Len(store.pendingOperations) = 0
       THEN /\ StartTask([NewTask("syncOfflineChanges") EXCEPT !.pc = "returned"], <<>>)
            /\ UNCHANGED store
       ELSE /\ store' = [store EXCEPT !.isSyncing = TRUE]
            /\ StartTask([NewTask("syncOfflineChanges") EXCEPT
                              !.queue = store.pendingOperations,
                              !.pc = "offlineSync.syncPendingMemories"],
                         <<"offlineSync.syncPendingMemories">>)
    /\ UNCHANGED server
    /\ UNCHANGED <<orchVars, fuseVars, authVars>>

\* syncOfflineChanges: offlineSync.syncPendingMemories settles
SyncOfflineChangesSettles(t, result) ==
    /\ t \in Awaiting("offlineSync.syncPendingMemories")
    /\ IF result = "fulfilled"
       THEN store' = [store EXCEPT !.pendingOperations = <<>>, !.isSyncing = FALSE]
       ELSE store' = [store EXCEPT !.error = result, !.isSyncing = FALSE]
    /\ Complete(t, [tasks[t] EXCEPT !.error = caught(result)], "returned")
    /\ UNCHANGED server
    /\ UNCHANGED <<orchVars, fuseVars, authVars>>

\* clearSyncQueue()
ClearSyncQueue ==
    /\ store' = [store EXCEPT !.pendingOperations = <<>>]
    /\ UNCHANGED <<tasks, server, calls>>
    /\ UNCHANGED <<orchVars, fuseVars, authVars>>

\* reset()
Reset ==
    /\ store' = initialState
    /\ UNCHANGED <<tasks, server, calls>>
    /\ UNCHANGED <<orchVars, fuseVars, authVars>>

\* what an awaited call of createMemory settles with: fulfilled or rejected with a message
Settlements == {"fulfilled"} \cup ServiceErrors

\* what an awaited call of the other actions settles with
Outcomes == {"fulfilled", "Internal server error"}

\* createMemory and resetMonthlyCount
CreateNext ==
    \/ \E input \in MemoryInputs : CreateMemory(input)
    \/ \E t \in 1..Len(tasks), result \in Settlements : CreateMemoryTranscribed(t, result)
    \/ \E t \in 1..Len(tasks), result \in {"context", "null"} \cup ServiceErrors :
           CreateMemoryExtracted(t, result)
    \/ \E t \in 1..Len(tasks), result \in Settlements : CreateMemoryEmbedded(t, result)
    \/ \E t \in 1..Len(tasks), result \in Settlements : CreateMemoryPersisted(t, result)
    \/ ResetMonthlyCount

CreateSpec == StoreInit /\ [][CreateNext]_vars

\* the actions that fetch and change the list of memories
ListNext ==
    \/ \E reset \in BOOLEAN : FetchMemories(reset)
    \/ \E t \in 1..Len(tasks), result \in FetchedPages \cup {"Internal server error"} :
           FetchMemoriesSettles(t, result)
    \/ \E id \in MemoryIds : UpdateMemory(id)
    \/ \E t \in 1..Len(tasks), result \in Outcomes : UpdateMemorySettles(t, result)
    \/ \E id \in MemoryIds : DeleteMemory(id)
    \/ \E t \in 1..Len(tasks), result \in Outcomes : DeleteMemorySettles(t, result)
    \/ DeleteMultiple
    \/ \E t \in 1..Len(tasks), result \in Outcomes : DeleteMultipleSettles(t, result)
    \/ ArchiveMultiple
    \/ \E t \in 1..Len(tasks), result \in Outcomes : ArchiveMultipleSettles(t, result)
    \/ SearchMemories
    \/ \E t \in 1..Len(tasks), result \in Outcomes : SearchMemoriesSettles(t, result)

ListSpec == StoreInit /\ [][ListNext]_vars

\* the actions that fill and empty the queue of offline operations
SyncNext ==
    \/ \E id \in MemoryIds : UpdateMemory(id)
    \/ \E t \in 1..Len(tasks), result \in Outcomes : UpdateMemorySettles(t, result)
    \/ \E id \in MemoryIds : DeleteMemory(id)
    \/ \E t \in 1..Len(tasks), result \in Outcomes : DeleteMemorySettles(t, result)
    \/ SyncOfflineChanges
    \/ \E t \in 1..Len(tasks), result \in Outcomes : SyncOfflineChangesSettles(t, result)
    \/ ClearSyncQueue
    \/ Reset

SyncSpec == StoreInit /\ [][SyncNext]_vars

(***************************************************************************)
(* useAuthStore (src/src/store/subscriptionStore.ts) with                  *)
(* encryptionService (src/unnamed/part_001) and authService                *)
(* (src/src/services/ai/AIProvider.ts): every call of initialize, login    *)
(* or logout is a task that is resumed when the call it awaits settles.    *)
(* A user is identified by the email of the login.                         *)
(***************************************************************************)
\* number of calls of actions of useAuthStore in one behaviour
MaxAuthCalls == 3

\* emails passed to login
Emails == {"user@example.com", "error@example.com"}

\* email.includes('error')
includesError(email) == email = "error@example.com"

\* authService.login(email): the user it resolves with, or the error it throws
authServiceLogin(email) ==
    IF includesError(email)
    THEN [status |-> "rejected", message |-> "Invalid credentials"]
    ELSE [status |-> "fulfilled", user |-> email]

\* JSON.stringify(user): a bare JSON text of the user
JSONstringify(user) == Text("none", [syntax |-> "json", value |-> user])

\* the message of the error a rejected SecureStore call throws
SecureStoreError == "SecureStore unavailable"

\* a call of an action of useAuthStore that has not reached an await yet
NewAuthTask(action) ==
    [action |-> action, pc |-> "start", email |-> "none", user |-> "null", error |-> "null"]

\* the auth store as created, nothing stored on the device
AuthInit ==
    /\ preferredProvider = CLAUDE
    /\ pc = "idle"
    /\ call = NoCall
    /\ claudeCall = NotCalled
    /\ kimiCall = NotCalled
    /\ openaiCall = NotCalled
    /\ results = <<>>
    /\ settleOrder = <<>>
    /\ invoked = <<>>
    /\ outcome = NoOutcome
    /\ responses = NoResponses
    /\ requests = <<>>
    /\ selected = NoSelection
    /\ first = NullValue
    /\ second = NullValue
    /\ fused = NoOutcome
    /\ AppInit

\* the calls of useAuthStore awaiting the call named callee
AuthAwaiting(callee) == {t \in 1..Len(authTasks) : authTasks[t].pc = callee}

\* task t of useAuthStore returns; error is what its catch block received, if anything
AuthReturn(t, error) ==
    authTasks' = [authTasks EXCEPT ![t].pc = "returned", ![t].error = error]

\* initialize() up to its await
Initialize ==
    /\ Len(authTasks) < MaxAuthCalls
    /\ auth' = [auth EXCEPT !.isLoading = TRUE]
    /\ authTasks' = Append(authTasks, [NewAuthTask("initialize") EXCEPT
                                           !.pc = "encryptionService.getItem"])
    /\ UNCHANGED secureStore
    /\ UNCHANGED <<orchVars, fuseVars, storeVars>>

\* encryptionService.getItem(key): the stored item, or null when SecureStore fails
encryptionServiceGetItem(ok) == IF ok THEN secureStore ELSE NullValue

\* initialize: encryptionService.getItem settles; ok is whether SecureStore answered
InitializeSettles(t, ok) ==
    /\ t \in AuthAwaiting("encryptionService.getItem")
    /\ LET storedUser == encryptionServiceGetItem(ok)
       IN  IF storedUser # NullValue /\ JSONparse(storedUser).ok
           THEN auth' = [auth EXCEPT !.user = JSONparse(storedUser).value,
                                     !.isAuthenticated = TRUE, !.isLoading = FALSE]
           ELSE auth' = [auth EXCEPT !.isAuthenticated = FALSE, !.isLoading = FALSE]
    /\ AuthReturn(t, "null")
    /\ UNCHANGED secureStore
    /\ UNCHANGED <<orchVars, fuseVars, storeVars>>

\* login(email) up to its first await
Login(email) ==
    /\ Len(authTasks) < MaxAuthCalls
    /\ auth' = [auth EXCEPT !.isLoading = TRUE, !.error = "null"]
    /\ authTasks' = Append(authTasks, [NewAuthTask("login") EXCEPT
                                           !.email = email, !.pc = "authService.login"])
    /\ UNCHANGED secureStore
    /\ UNCHANGED <<orchVars, fuseVars, storeVars>>

\* login: authService.login settles
LoginSettles(t) ==
    /\ t \in AuthAwaiting("authService.login")
    /\ LET settled == authServiceLogin(authTasks[t].email)
       IN  IF settled.status = "fulfilled"
           THEN /\ authTasks' = [authTasks EXCEPT ![t].user = settled.user,
                                                  ![t].pc = "encryptionService.setItem"]
                /\ UNCHANGED auth
           ELSE /\ auth' = [auth EXCEPT !.error = settled.message, !.isLoading = FALSE]
                /\ AuthReturn(t, settled.message)
    /\ UNCHANGED secureStore
    /\ UNCHANGED <<orchVars, fuseVars, storeVars>>

\* login: encryptionService.setItem settles
LoginSetItemSettles(t, ok) ==
    /\ t \in AuthAwaiting("encryptionService.setItem")
    /\ IF ok
       THEN /\ secureStore' = JSONstringify(authTasks[t].user)
            /\ auth' = [auth EXCEPT !.user = authTasks[t].user, !.isAuthenticated = TRUE,
                                    !.isLoading = FALSE]
       ELSE /\ auth' = [auth EXCEPT !.error = SecureStoreError, !.isLoading = FALSE]
            /\ UNCHANGED secureStore
    /\ AuthReturn(t, IF ok THEN "null" ELSE SecureStoreError)
    /\ UNCHANGED <<orchVars, fuseVars, storeVars>>

\* logout() up to its first await
Logout ==
    /\ Len(authTasks) < MaxAuthCalls
    /\ auth' = [auth EXCEPT !.isLoading = TRUE]
    /\ authTasks' = Append(authTasks, [NewAuthTask("logout") EXCEPT
                                           !.pc = "authService.logout"])
    /\ UNCHANGED secureStore
    /\ UNCHANGED <<orchVars, fuseVars, storeVars>>

\* logout: authService.logout resolves
LogoutSettles(t) ==
    /\ t \in AuthAwaiting("authService.logout")
    /\ authTasks' = [authTasks EXCEPT ![t].pc = "encryptionService.deleteItem"]
    /\ UNCHANGED <<auth, secureStore>>
    /\ UNCHANGED <<orchVars, fuseVars, storeVars>>

\* logout: encryptionService.deleteItem settles
LogoutDeleteItemSettles(t, ok) ==
    /\ t \in AuthAwaiting("encryptionService.deleteItem")
    /\ IF ok
       THEN /\ secureStore' = NullValue
            /\ auth' = [auth EXCEPT !.user = "null", !.isAuthenticated = FALSE,
                                    !.isLoading = FALSE]
       ELSE /\ auth' = [auth EXCEPT !.isLoading = FALSE, !.error = "Logout failed"]
            /\ UNCHANGED secureStore
    /\ AuthReturn(t, IF ok THEN "null" ELSE SecureStoreError)
    /\ UNCHANGED <<orchVars, fuseVars, storeVars>>

AuthNext ==
    \/ Initialize
    \/ \E t \in 1..Len(authTasks), ok \in BOOLEAN : InitializeSettles(t, ok)
    \/ \E email \in Emails : Login(email)
    \/ \E t \in 1..Len(authTasks) : LoginSettles(t)
    \/ \E t \in 1..Len(authTasks), ok \in BOOLEAN : LoginSetItemSettles(t, ok)
    \/ Logout
    \/ \E t \in 1..Len(authTasks) : LogoutSettles(t)
    \/ \E t \in 1..Len(authTasks), ok \in BOOLEAN : LogoutDeleteItemSettles(t, ok)

AuthSpec == AuthInit /\ [][AuthNext]_vars

(***************************************************************************)
(* Properties                                                              *)
(***************************************************************************)
EnsembleCall == call.op = "extractContext" /\ call.useEnsemble

SingleCall == call.op = "extractContext" /\ ~call.useEnsemble

EnsembleDone == EnsembleCall /\ pc = "done"

CallFailed(p) == p.status = "rejected"

CallSucceeded(p) == p.status = "fulfilled"

NoDuplicates(s) == \A i, j \in 1..Len(s) : s[i] = s[j] => i = j

\* C1: an ensemble extractContext in which exactly one of the two provider
\* calls failed returns a result, and it fails with AllProvidersFailed if and
\* only if both calls failed.
C1_DegradedSuccess ==
    EnsembleDone =>
        /\ (CallFailed(claudeCall) # CallFailed(openaiCall)) => outcome.status = "returned"
        /\ (outcome = Thrown(AllProvidersFailed))
               <=> (CallFailed(claudeCall) /\ CallFailed(openaiCall))

\* C2: in an ensemble extractContext both provider calls are started before
\* either has an outcome, a failed call leaves the operation waiting for the
\* other one, and the operation completes only when both calls have settled.
C2_WaitsForBoth ==
    EnsembleCall =>
        /\ claudeCall.status # "none" /\ openaiCall.status # "none"
        /\ (CallFailed(claudeCall) /\ openaiCall.status = "pending") => pc = "awaiting"
        /\ (CallFailed(openaiCall) /\ claudeCall.status = "pending") => pc = "awaiting"
        /\ pc = "done" => (Settled(claudeCall) /\ Settled(openaiCall))
        /\ pc = "awaiting" => outcome = NoOutcome

\* C2 witness: Claude failed first, OpenAI was awaited and succeeded, and the
\* operation returned.
C2_Witness ==
    /\ EnsembleDone
    /\ settleOrder = <<CLAUDE, OPENAI>>
    /\ CallFailed(claudeCall)
    /\ CallSucceeded(openaiCall)
    /\ outcome.status = "returned"

\* C3: the outcome of an ensemble extractContext is determined by the outcomes
\* of the Claude call and of the OpenAI call, not by the order in which they
\* completed; when both succeeded it is the fusion with Claude's result as
\* first and OpenAI's as second argument.
C3_OrderIndependent ==
    EnsembleDone =>
        /\ outcome = resolveEnsemble(claudeCall, openaiCall)
        /\ (CallSucceeded(claudeCall) /\ CallSucceeded(openaiCall))
               => outcome = fuseContextResults(claudeCall.value, openaiCall.value)

\* C3 witness: OpenAI completed before Claude, both succeeded with different
\* results, and the fusion took Claude's summary and category.
C3_Witness ==
    /\ EnsembleDone
    /\ settleOrder = <<OPENAI, CLAUDE>>
    /\ claudeCall = Fulfilled(ResultA)
    /\ openaiCall = Fulfilled(ResultB)
    /\ outcome.status = "returned"
    /\ outcome.value.summary = ResultA.summary
    /\ outcome.value.tags = <<1, 2, 3>>
    /\ fuseContextResults(ResultB, ResultA) # fuseContextResults(ResultA, ResultB)

\* C4: fusing a result with null gives that result unchanged, on either
\* side, and an ensemble extractContext in which exactly one provider call
\* succeeded returns that call's result unmodified.
C4_IdentityLaw ==
    /\ \A v \in SampleResults \cup {EmptyObject} :
           /\ fuseContextResults(v, NullValue) = Returned(v)
           /\ fuseContextResults(NullValue, v) = Returned(v)
    /\ EnsembleDone =>
           /\ (CallSucceeded(claudeCall) /\ CallFailed(openaiCall))
                  => outcome = Returned(claudeCall.value)
           /\ (CallFailed(claudeCall) /\ CallSucceeded(openaiCall))
                  => outcome = Returned(openaiCall.value)

\* C5: extractContext(text, false) calls only the Claude client, completes
\* exactly as that call does (its value returned, its failure thrown), and
\* never fails with AllProvidersFailed.
C5_NonEnsemble ==
    SingleCall =>
        /\ invoked = <<<<CLAUDE, "extractContext">>>>
        /\ openaiCall = NotCalled
        /\ kimiCall = NotCalled
        /\ outcome.error # AllProvidersFailed
        /\ pc = "done" =>
               /\ Settled(claudeCall)
               /\ CallSucceeded(claudeCall) => outcome = Returned(claudeCall.value)
               /\ CallFailed(claudeCall) => outcome = Thrown(claudeCall.reason)

\* C5 witness: a non-ensemble call whose Claude call failed on an unparsable
\* answer, and which failed with that error.
C5_Witness ==
    /\ SingleCall
    /\ pc = "done"
    /\ claudeCall = Rejected("SyntaxError")
    /\ outcome = Thrown("SyntaxError")

\* the policy table of the specification, section 4.2
PolicyTable ==
    [c \in AICapability |->
        IF c \in {TRANSCRIPTION, SEARCH, TRANSLATION, CODE_ANALYSIS} THEN KIMI
        ELSE IF c \in {CONTEXT_EXTRACTION, SUMMARIZATION} THEN CLAUDE
        ELSE OPENAI]

\* C6: with no override, selectProvider returns the provider the policy
\* table gives for the capability, in every state of the orchestrator.
C6_PolicyTable ==
    (selected.capability \in AICapability /\ selected.userPreference = NoProvider)
        => selected.provider = PolicyTable[selected.capability]

\* C6 witness: a Conversation selection without override returned OpenAI
\* while the preferred provider was Kimi.
C6_Witness ==
    /\ selected.capability = CONVERSATION
    /\ selected.userPreference = NoProvider
    /\ selected.provider = OPENAI
    /\ preferredProvider = KIMI

\* C7: with an override, selectProvider returns the override, whatever the
\* capability.
C7_OverrideWins ==
    (selected.capability \in AICapability /\ selected.userPreference \in AIProvider)
        => selected.provider = selected.userPreference

\* C7 witness: Transcription, whose table entry is Kimi, with override Claude.
C7_Witness ==
    /\ selected.capability = TRANSCRIPTION
    /\ selected.userPreference = CLAUDE
    /\ selected.provider = CLAUDE
    /\ PolicyTable[TRANSCRIPTION] # CLAUDE

\* every client method the operation invoked is defined by its provider class
InvokedAreImplemented == \A i \in 1..Len(invoked) : invoked[i][2] \in methods[invoked[i][1]]

\* C8 (as stated): for every capability and every optional override, the
\* provider selectProvider returns supports the capability, and no operation
\* invokes a method its provider lacks.
C8_RouterSupports ==
    /\ selected.capability \in AICapability
           => selected.capability \in Range(getCapabilities[selected.provider])
    /\ InvokedAreImplemented

\* C8 (amended): with no override the provider selectProvider returns lists
\* the capability among its capabilities, and no operation invokes a method
\* its provider class lacks.
C8_RouterSupportsDefault ==
    /\ (selected.capability \in AICapability /\ selected.userPreference = NoProvider)
           => selected.capability \in Range(getCapabilities[selected.provider])
    /\ InvokedAreImplemented

\* C8 witness: Transcription without override selected Kimi, which lists it.
C8_Witness ==
    /\ selected.capability = TRANSCRIPTION
    /\ selected.userPreference = NoProvider
    /\ selected.provider = KIMI
    /\ TRANSCRIPTION \in Range(getCapabilities[KIMI])

\* the provider clients with a call made by the current operation
CalledClients ==
    {p \in AIProvider :
        (CASE p = CLAUDE -> claudeCall [] p = KIMI -> kimiCall [] OTHER -> openaiCall).status
            # "none"}

\* C9 (as stated): transcribeAudio invokes the client of the override when
\* one is given, the Kimi client otherwise, and exactly one client per call.
C9_OverrideClientInvoked ==
    call.op = "transcribeAudio" =>
        /\ Len(invoked) = 1
        /\ invoked[1] = <<IF call.provider # NoProvider THEN call.provider ELSE KIMI,
                          "transcribe">>
        /\ CalledClients = {invoked[1][1]}

\* C9 (amended): transcribeAudio invokes the client of the override when the
\* override is Kimi or OpenAI, the OpenAI client when the override is Claude,
\* the Kimi client when there is no override, and exactly one client per call.
C9_TranscribeClient ==
    call.op = "transcribeAudio" =>
        /\ Len(invoked) = 1
        /\ invoked[1] = <<CASE call.provider \in {KIMI, OPENAI} -> call.provider
                            [] call.provider = CLAUDE -> OPENAI
                            [] OTHER -> KIMI,
                          "transcribe">>
        /\ CalledClients = {invoked[1][1]}

\* C9 witness: a transcription with override OpenAI invoked the OpenAI
\* client, not Kimi's, and returned its result.
C9_Witness ==
    /\ call.op = "transcribeAudio"
    /\ call.provider = OPENAI
    /\ PolicyTable[TRANSCRIPTION] = KIMI
    /\ invoked = <<<<OPENAI, "transcribe">>>>
    /\ kimiCall = NotCalled
    /\ pc = "done"
    /\ outcome.status = "returned"

\* C10: the tags of the fusion of two results hold no string twice and are
\* at most 10, whatever the overlap and the repetitions of the inputs' tags.
C10_TagsUniqueBounded ==
    (fused.status = "returned" /\ Truthy(first) /\ Truthy(second)) =>
        /\ NoDuplicates(fused.value.tags)
        /\ Len(fused.value.tags) <= 10

\* C10 witness: both inputs repeat a tag, share tags, together hold more
\* than 10 distinct tags, and the fusion has exactly 10.
C10_Witness ==
    /\ fused.status = "returned"
    /\ Truthy(first) /\ Truthy(second)
    /\ ~NoDuplicates(first.tags)
    /\ ~NoDuplicates(second.tags)
    /\ Range(first.tags) \cap Range(second.tags) # {}
    /\ Cardinality(Range(first.tags) \cup Range(second.tags)) > 10
    /\ Len(fused.value.tags) = 10

\* fuseContextResults returned the fusion of two results, neither of them null
BothPresent == fused.status = "returned" /\ Truthy(first) /\ Truthy(second)

\* the places of a sequence that hold the first occurrence of their entry
FirstIndices(s) == {i \in 1..Len(s) : \A j \in 1..(i - 1) : s[j] # s[i]}

\* the sequence kept when only the first occurrence of every entry is kept
FirstOccurrences(s) ==
    LET idx == FirstIndices(s)
    IN  [k \in 1..Cardinality(idx) |->
            s[CHOOSE i \in idx : Cardinality({j \in idx : j <= i}) = k]]

\* the first n entries of a sequence, all of them if it has fewer
Prefix(s, n) == [k \in 1..(IF Len(s) < n THEN Len(s) ELSE n) |-> s[k]]

\* C11: the tags of a fusion are the first 10 entries of the first input's
\* tags followed by the second input's, each string kept at its first
\* occurrence only.
C11_TagsOrdered ==
    BothPresent =>
        fused.value.tags = Prefix(FirstOccurrences(first.tags \o second.tags), 10)

\* C11 witness: the first input repeats a tag, the second brings tags of its
\* own of which one is kept and one is cut, and every tag of the first input
\* is kept.
C11_Witness ==
    /\ BothPresent
    /\ ~NoDuplicates(first.tags)
    /\ Range(first.tags) \subseteq Range(fused.value.tags)
    /\ \E t \in Range(second.tags) \ Range(first.tags) : t \in Range(fused.value.tags)
    /\ \E t \in Range(second.tags) \ Range(first.tags) : t \notin Range(fused.value.tags)
    /\ Len(fused.value.tags) = 10

\* the array-valued fields that are fused without a limit
UncutFields == {"people", "places", "dates", "tasks", "emotions"}

\* C12: people, places, dates, tasks and emotions of a fusion each hold every
\* entry of either input exactly once, in the order first input then second
\* input, whatever the lengths.
C12_ListsUnion ==
    BothPresent =>
        \A f \in UncutFields :
            /\ fused.value[f] = FirstOccurrences(first[f] \o second[f])
            /\ Range(fused.value[f]) = Range(first[f]) \cup Range(second[f])
            /\ NoDuplicates(fused.value[f])

\* C12 witness: a field whose inputs repeat an entry and overlap, fused to
\* more than 10 entries.
C12_Witness ==
    /\ BothPresent
    /\ \E f \in UncutFields :
           /\ ~NoDuplicates(first[f])
           /\ Range(first[f]) \cap Range(second[f]) # {}
           /\ Len(fused.value[f]) > 10

\* C13: the priority of a fusion is the larger of the two inputs' priorities,
\* for all priorities from 0 to 5.
C13_PriorityMax ==
    BothPresent =>
        /\ first.priority \in 0..5 /\ second.priority \in 0..5
        /\ fused.value.priority >= first.priority
        /\ fused.value.priority >= second.priority
        /\ fused.value.priority \in {first.priority, second.priority}

\* C13 witness: the second input has the larger priority.
C13_Witness ==
    /\ BothPresent
    /\ first.priority = 1
    /\ second.priority = 5
    /\ fused.value.priority = 5

\* C14: the confidence of a fusion is the mean of the two inputs'
\* confidences, and the confidence of a result that has a single source (the
\* other input null, or the other call of the ensemble failed) is that
\* source's confidence.
C14_ConfidenceMean ==
    /\ BothPresent => 2 * fused.value.confidence = first.confidence + second.confidence
    /\ (fused.status = "returned" /\ ~Truthy(second)) => fused.value.confidence = first.confidence
    /\ (fused.status = "returned" /\ ~Truthy(first)) => fused.value.confidence = second.confidence
    /\ (EnsembleDone /\ outcome.status = "returned" /\ "confidence" \in DOMAIN outcome.value) =>
           /\ (CallSucceeded(claudeCall) /\ CallFailed(openaiCall))
                  => outcome.value.confidence = claudeCall.value.confidence
           /\ (CallFailed(claudeCall) /\ CallSucceeded(openaiCall))
                  => outcome.value.confidence = openaiCall.value.confidence

\* C14 witness: confidences 0.8 and 0.6 fused to 0.7.
C14_Witness ==
    /\ BothPresent
    /\ first.confidence = 160
    /\ second.confidence = 120
    /\ fused.value.confidence = 140

\* C15: summary, category and sentiment of a fusion are those of the first
\* input, whatever the second input's are.
C15_ProseFromFirst ==
    BothPresent =>
        /\ fused.value.summary = first.summary
        /\ fused.value.category = first.category
        /\ fused.value.sentiment = first.sentiment

\* C15 witness: the inputs differ in summary, category and sentiment.
C15_Witness ==
    /\ BothPresent
    /\ first.summary # second.summary
    /\ first.category # second.category
    /\ first.sentiment # second.sentiment
    /\ fused.value.summary = first.summary

\* C16: the title of a fusion is the second input's title if that is not
\* empty, and the first input's title otherwise.
C16_TitleFromSecond ==
    BothPresent =>
        fused.value.title = IF second.title # 0 THEN second.title ELSE first.title

\* C16 witness: both titles are non-empty and differ, and the fusion has the
\* second input's.
C16_Witness ==
    /\ BothPresent
    /\ first.title # 0
    /\ second.title # 0
    /\ first.title # second.title
    /\ fused.value.title = second.title

\* C16, second witness of the same claim's other case: the second title is
\* empty and the fusion has the first input's.
C16_EmptyTitleCase ==
    /\ BothPresent
    /\ second.title = 0
    /\ first.title # 0
    /\ fused.value.title = first.title

\* the fields of a ContextExtractionResult
ResultFields ==
    {"summary", "title", "tags", "people", "places", "dates", "tasks", "emotions",
     "priority", "category", "sentiment", "confidence"}

\* a value with the shape of a ContextExtractionResult
WellFormedResult(v) == v.json = "object" /\ ResultFields \subseteq DOMAIN v

\* C17: every result extractContext returns has the shape of a
\* ContextExtractionResult, and a provider call whose payload parses but
\* lacks required fields fails instead of succeeding with that payload.
C17_ValidatedResults ==
    call.op = "extractContext" =>
        /\ outcome.status = "returned" => WellFormedResult(outcome.value)
        /\ CallSucceeded(claudeCall) => WellFormedResult(claudeCall.value)
        /\ CallSucceeded(openaiCall) => WellFormedResult(openaiCall.value)

\* the taxonomy kind of an error an operation throws, "none" if it has none:
\* an API or network error is ProviderUnavailable, an unparsable or unexpected answer is
\* MalformedResponse
TaxonomyKind(e) ==
    CASE e = "APIError" -> "ProviderUnavailable"
      [] e \in {"SyntaxError", "Unexpected response type from Claude"} -> "MalformedResponse"
      [] e = "NetworkError" -> "ProviderUnavailable"
      [] e = AllProvidersFailed -> "AllProvidersFailed"
      [] OTHER -> "none"

\* C18: every error an operation of the orchestrator throws has a taxonomy
\* kind; in particular an ensemble extractContext in which a provider call
\* succeeded throws no error of another kind.
C18_TaxonomyOnly ==
    /\ outcome.status = "thrown" => TaxonomyKind(outcome.error) # "none"
    /\ (EnsembleDone /\ (CallSucceeded(claudeCall) \/ CallSucceeded(openaiCall)))
           => outcome.error \in {"none", AllProvidersFailed}

\* a backend answered with a well-formed result wrapped in a code fence
FencedResult(t) ==
    t.fence # "none" /\ t.body.syntax = "json" /\ WellFormedResult(t.body.value)

\* C19: a provider's extractContext that is answered with a well-formed
\* result wrapped in a code fence succeeds with that result, as it does for
\* the same answer without the fence, for Claude and for OpenAI.
C19_FenceStripped ==
    call.op = "extractContext" =>
        /\ (responses[CLAUDE].kind = "text" /\ FencedResult(responses[CLAUDE].text))
               => /\ claudeCall = Fulfilled(responses[CLAUDE].text.body.value)
                  /\ claudeCall = ClaudeExtractContext(
                         [kind |-> "text", text |-> Text("none", responses[CLAUDE].text.body)])
        /\ (responses[OPENAI].kind = "message" /\ FencedResult(responses[OPENAI].content))
               => /\ openaiCall = Fulfilled(responses[OPENAI].content.body.value)
                  /\ openaiCall = OpenAIExtractContext(
                         [kind |-> "message",
                          content |-> Text("none", responses[OPENAI].content.body)])

\* C20: conversationalQuery calls one provider client and no other, Claude's
\* when preferDepth is true or not given and OpenAI's when it is false; it
\* fuses nothing, and it fails exactly as the call it made fails.
C20_SingleProvider ==
    call.op = "conversationalQuery" =>
        LET provider == IF call.preferDepthArg \in {"true", "undefined"} THEN CLAUDE ELSE OPENAI
            made == IF provider = CLAUDE THEN claudeCall ELSE openaiCall
            other == IF provider = CLAUDE THEN openaiCall ELSE claudeCall
        IN  /\ Len(invoked) = 1
            /\ invoked[1][1] = provider
            /\ CalledClients = {provider}
            /\ made.status # "none"
            /\ other = NotCalled
            /\ kimiCall = NotCalled
            /\ results = <<>>
            /\ pc = "done" =>
                   /\ Settled(made)
                   /\ CallFailed(made) <=> outcome.status = "thrown"
                   /\ CallFailed(made) => outcome = Thrown(made.reason)
                   /\ (CallSucceeded(made) /\ made.value \notin {NullValue, StringValue(0)})
                          => outcome = Returned(made.value)

\* C20 witness: preferDepth false, the chat completion of the OpenAI client
\* failed, Claude's client was not called, and the operation failed with the
\* same error.
C20_Witness ==
    /\ call.op = "conversationalQuery"
    /\ call.preferDepthArg = "false"
    /\ pc = "done"
    /\ openaiCall = Rejected("APIError")
    /\ claudeCall = NotCalled
    /\ outcome = Thrown("APIError")

\* C20, the case of the default: preferDepth not given, Claude's client
\* answered, and the operation returned its answer.
C20_DefaultCase ==
    /\ call.op = "conversationalQuery"
    /\ call.preferDepthArg = "undefined"
    /\ pc = "done"
    /\ claudeCall.status = "fulfilled"
    /\ openaiCall = NotCalled
    /\ outcome = Returned(claudeCall.value)

\* the provider the routing table of the specification gives for the
\* capability of a delegating operation; embeddings have no capability and go
\* to the one client that defines generateEmbedding
RoutedClient(op) ==
    CASE op = "translateMemory" -> PolicyTable[TRANSLATION]
      [] op = "analyzeCode" -> PolicyTable[CODE_ANALYSIS]
      [] op = "createMemoryStory" -> PolicyTable[CREATIVE]
      [] OTHER -> CHOOSE p \in AIProvider : "generateEmbedding" \in methods[p]

\* C21: generateEmbedding, translateMemory, analyzeCode and createMemoryStory
\* each invoke one client once, the one the routing table gives for the
\* operation's capability (the embedding client for embeddings), call no
\* other client, and fail with the error of that call, unchanged.
C21_FixedDelegation ==
    call.op \in DelegatedOperations =>
        /\ Len(invoked) = 1
        /\ invoked[1][1] = RoutedClient(call.op)
        /\ invoked[1][2] \in methods[invoked[1][1]]
        /\ CalledClients = {RoutedClient(call.op)}
        /\ results = <<>>
        /\ pc = "done" =>
               /\ Settled(CallOf(invoked[1][1]))
               /\ CallFailed(CallOf(invoked[1][1])) <=> outcome.status = "thrown"
               /\ CallFailed(CallOf(invoked[1][1]))
                      => outcome = Thrown(CallOf(invoked[1][1]).reason)

\* C21 witness: analyzeCode called the Kimi client only, the answer was not
\* JSON, and the operation failed with the client's error.
C21_Witness ==
    /\ call.op = "analyzeCode"
    /\ pc = "done"
    /\ invoked = <<<<KIMI, "analyzeCode">>>>
    /\ kimiCall = Rejected("SyntaxError")
    /\ claudeCall = NotCalled
    /\ openaiCall = NotCalled
    /\ outcome = Thrown("SyntaxError")

\* C21, further case: generateEmbedding returned the embedding the OpenAI
\* client was answered with.
C21_EmbeddingCase ==
    /\ call.op = "generateEmbedding"
    /\ pc = "done"
    /\ invoked = <<<<OPENAI, "generateEmbedding">>>>
    /\ outcome.status = "returned"
    /\ outcome.value.embedding = responses[OPENAI].embedding

BackendRequestsOf(provider) ==
    SelectSeq(requests, LAMBDA r : r[1] = provider /\ r[2] # "fetch")

C22_EnsembleCase ==
    /\ EnsembleDone
    /\ requests = <<<<CLAUDE, "messages.create">>, <<OPENAI, "chat.completions.create">>>>
    /\ CallFailed(claudeCall)
    /\ CallSucceeded(openaiCall)

\* C23: getAllCapabilities returns and never throws, makes no request and
\* calls no provider, and returns in every state the same mapping, which has
\* an entry for each of the three providers and no other, each entry a
\* sequence of capabilities.
C23_StaticCapabilities ==
    call.op = "getAllCapabilities" =>
        /\ outcome.status = "returned"
        /\ requests = <<>>
        /\ CalledClients = {}
        /\ DOMAIN outcome.value.entries = AIProvider
        /\ \A p \in AIProvider : outcome.value.entries[p] \in Seq(AICapability)
        /\ \A p \in AIProvider : outcome.value.entries[p] = getCapabilities[p]

\* the client an operation invokes according to the specification, given its
\* arguments only: transcribeAudio as amended in C9, extractContext Claude
\* (and OpenAI in an ensemble), conversationalQuery by preferDepth, the
\* delegating operations by the routing table
ClientsByArguments ==
    CASE call.op = "transcribeAudio" ->
             {CASE call.provider \in {KIMI, OPENAI} -> call.provider
                [] call.provider = CLAUDE -> OPENAI
                [] OTHER -> PolicyTable[TRANSCRIPTION]}
      [] call.op = "extractContext" -> IF call.useEnsemble THEN {CLAUDE, OPENAI} ELSE {CLAUDE}
      [] call.op = "conversationalQuery" -> {IF call.preferDepth THEN CLAUDE ELSE OPENAI}
      [] call.op \in DelegatedOperations -> {RoutedClient(call.op)}
      [] OTHER -> {}

\* C24: whatever provider setPreferredProvider has set, selectProvider
\* without override returns the table entry of the capability and with an
\* override returns the override, and every operation calls the clients its
\* arguments determine: the preferred provider is never the one chosen
\* because it is preferred.
C24_PreferenceUnused ==
    \A preferred \in AIProvider :
        /\ \A c \in AICapability :
               /\ selectProvider(c, NoProvider, preferred) = PolicyTable[c]
               /\ \A o \in AIProvider : selectProvider(c, o, preferred) = o
        /\ preferredProvider = preferred =>
               /\ selected.capability \in AICapability =>
                      selected.provider = IF selected.userPreference = NoProvider
                                          THEN PolicyTable[selected.capability]
                                          ELSE selected.userPreference
               /\ CalledClients = ClientsByArguments

\* C24 witness: the preferred provider was set to Kimi, and a non-ensemble
\* extractContext called Claude's client all the same.
C24_Witness ==
    /\ preferredProvider = KIMI
    /\ SingleCall
    /\ pc = "done"
    /\ CalledClients = {CLAUDE}

\* C24, further case: the preferred provider was set to OpenAI and a
\* Transcription selection without override returned Kimi.
C24_SelectionCase ==
    /\ preferredProvider = OPENAI
    /\ selected.capability = TRANSCRIPTION
    /\ selected.userPreference = NoProvider
    /\ selected.provider = KIMI

\* C25: a result an ensemble extractContext returns, fused from two results
\* or taken from the one call that succeeded, has no entry twice in any of
\* its sequence fields and at most 10 tags.
C25_EnsembleInvariant ==
    (EnsembleDone /\ outcome.status = "returned") =>
        /\ \A f \in ListFields :
               f \in DOMAIN outcome.value => NoDuplicates(outcome.value[f])
        /\ "tags" \in DOMAIN outcome.value => Len(outcome.value.tags) <= 10

\* the calls createMemory makes for this input when every one of them succeeds
createMemorySteps(input) ==
    (IF input.mediaType = "voice" /\ input.audioUrl THEN <<"transcribeAudio">> ELSE <<>>)
    \o <<"extractContext", "generateEmbedding", "memoryService.createMemory">>

\* call t of createMemory throws in this step
ThrowsNow(t) ==
    /\ tasks'[t].pc = "thrown"
    /\ t <= Len(tasks) => tasks[t].pc # "thrown"

\* C26: createMemory makes its calls in the order transcribeAudio (only for a
\* voice input with an audio URL), extractContext, generateEmbedding,
\* memoryService.createMemory, each after the one before succeeded; the memory
\* is persisted only when all of them were made; the step in which the call
\* throws leaves memories, monthlyCount and the backend unchanged, sets
\* isProcessing false and processingProgress 0 and makes no call, and a call
\* that has thrown makes no call afterwards.
C26_OrderedSteps ==
    [][\A t \in CreateTasks(tasks') :
           LET steps == createMemorySteps(tasks'[t].input)
           IN  /\ Len(calls'[t]) <= Len(steps)
               /\ calls'[t] = Prefix(steps, Len(calls'[t]))
               /\ (100 + t) \in Range(server'.created) =>
                      /\ calls'[t] = steps
                      /\ tasks'[t].pc = "returned"
               /\ tasks'[t].pc = "returned" => (100 + t) \in Range(server'.created)
               /\ t <= Len(tasks) /\ tasks[t].pc # tasks'[t].pc =>
                      tasks[t].pc = calls[t][Len(calls[t])]
               /\ ThrowsNow(t) =>
                      /\ store'.memories = store.memories
                      /\ store'.monthlyCount = store.monthlyCount
                      /\ store'.isProcessing = FALSE
                      /\ store'.processingProgress = 0
                      /\ store'.error = tasks'[t].error
                      /\ server' = server
                      /\ calls'[t] = IF t <= Len(tasks) THEN calls[t] ELSE <<>>
               /\ t <= Len(tasks) /\ tasks[t].pc = "thrown" =>
                      /\ tasks'[t] = tasks[t]
                      /\ calls'[t] = calls[t]]_vars

\* C26 witness: one call of createMemory for a voice input threw after
\* transcribeAudio and extractContext, another persisted its memory.
C26_Witness ==
    /\ \E t \in CreateTasks(tasks) :
           /\ tasks[t].pc = "thrown"
           /\ calls[t] = <<"transcribeAudio", "extractContext">>
    /\ \E t \in CreateTasks(tasks) :
           /\ tasks[t].pc = "returned"
           /\ store.memories # <<>>

\* C27: monthlyCount never exceeds monthlyLimit, whatever the interleaving of
\* createMemory calls and resetMonthlyCount, and a call that threw the limit
\* error made no call to the orchestrator or memoryService and persisted
\* nothing.
C27_WithinMonthlyLimit ==
    /\ store.monthlyCount <= store.monthlyLimit
    /\ \A t \in CreateTasks(tasks) :
           tasks[t].error = LimitError =>
               /\ calls[t] = <<>>
               /\ (100 + t) \notin Range(server.created)

\* C28: at most one memoryService.fetchMemories request is in flight at any
\* time, whatever the interleaving of fetchMemories, updateMemory,
\* deleteMemory, searchMemories and the batch operations, and no page is in
\* memories twice.
C28_SingleFlightFetch ==
    /\ Cardinality(Awaiting("memoryService.fetchMemories")) <= 1
    /\ NoDuplicates([i \in 1..Len(store.memories) |-> store.memories[i].id])

\* C28, further case: page 0 is in memories twice.
C28_PageTwice ==
    \E i, j \in 1..Len(store.memories) : i # j /\ store.memories[i].id = store.memories[j].id

\* C29: an entry leaves pendingOperations only in a step of clearSyncQueue or
\* reset, or when a syncOfflineChanges that found the entry in the queue when
\* it started completes with success; a failed updateMemory or deleteMemory
\* appends exactly one entry, and a failed sync leaves the queue unchanged.
C29_NoOperationLost ==
    [][/\ \A e \in Range(store.pendingOperations) :
              e \notin Range(store'.pendingOperations) =>
                  \/ tasks' = tasks /\ store'.pendingOperations = <<>>
                  \/ \E t \in Awaiting("offlineSync.syncPendingMemories") :
                         /\ tasks'[t].pc = "returned"
                         /\ tasks'[t].error = "null"
                         /\ e \in Range(tasks[t].queue)
       /\ \A t \in 1..Len(tasks) :
              /\ tasks[t].action \in {"updateMemory", "deleteMemory"}
              /\ tasks[t].pc # "returned"
              /\ tasks'[t].pc = "returned"
              /\ tasks'[t].error # "null"
              => /\ Len(store'.pendingOperations) = Len(store.pendingOperations) + 1
                 /\ Prefix(store'.pendingOperations, Len(store.pendingOperations))
                        = store.pendingOperations
       /\ \A t \in Awaiting("offlineSync.syncPendingMemories") :
              tasks'[t].pc = "returned" /\ tasks'[t].error # "null" =>
                  store'.pendingOperations = store.pendingOperations]_vars

\* no call of an action of useAuthStore is in flight, and one was made
AuthIdle ==
    /\ authTasks # <<>>
    /\ \A t \in 1..Len(authTasks) : authTasks[t].pc = "returned"

\* C30: whenever no call of initialize, login or logout is in flight (and one
\* has been made), isLoading is false and isAuthenticated is true exactly when
\* user is not null.
C30_AuthConsistent ==
    AuthIdle =>
        /\ auth.isLoading = FALSE
        /\ auth.isAuthenticated <=> auth.user # "null"

\* C30, further case: a login failed, left user and isAuthenticated as they
\* were and set error.
C30_FailedLogin ==
    [][\A t \in 1..Len(authTasks) :
           /\ authTasks[t].action = "login"
           /\ authTasks[t].pc # "returned"
           /\ authTasks'[t].pc = "returned"
           /\ authTasks'[t].error # "null"
           => /\ auth'.user = auth.user
              /\ auth'.isAuthenticated = auth.isAuthenticated
              /\ auth'.error = authTasks'[t].error]_vars

====
